---- MODULE Spec2Model ----
(***************************************************************************)
(* A model of the Medical-IDP pipeline: the citation ledger                *)
(* (citation_tracker.py), the four-node query orchestrator                 *)
(* (orchestrator.py) and procedure extraction (extraction_agent.py).       *)
(*                                                                         *)
(* Python values are modelled as follows.  A dict is a record; a key that  *)
(* is absent holds Missing.  None is the value None.  A str is a sequence  *)
(* of tokens [w, c]: w is a lower-case word or phrase, c its casing        *)
(* ("l" lower, "t" title, "u" upper).  Confidences are in hundredths, a    *)
(* duration is None or the decimal numeral of its float.                   *)
(***************************************************************************)
EXTENDS Integers, Sequences, FiniteSets, TLC

VARIABLES
    tracker,    \* one CitationTracker: [steps, current_step_number]
    returned,   \* history: the values start_step has returned, in order
    ended,      \* history: the step numbers end_step has written
    thr,        \* the threads calling start_step concurrently
    runs,       \* the process_query invocations on one orchestrator
    ext         \* one call of ExtractionAgent._extract_procedures

vars == <<tracker, returned, ended, thr, runs, ext>>

\* ---------------------------------------------------------------- bounds

MaxSteps == 3
MaxCitations == 2
NThreads == 2
MaxCalls == 1
NRuns == 2
MaxFacilities == 2
MaxToks == 2
MaxEntries == 2

\* ------------------------------------------------------- Python values

None == "None"
Missing == "<missing>"
EmptyDict == [empty |-> TRUE]

SeqsUpTo(S, n) == UNION {[1..k -> S] : k \in 0..n}

RECURSIVE SumSeq(_)
SumSeq(s) == IF s = <<>> THEN 0 ELSE Head(s) + SumSeq(Tail(s))

\* ------------------------------------------------- citation_tracker.py

Citation(source_type, facility_id, facility_name, field_name, field_value, row_number, confidence) ==
    [source_type |-> source_type, facility_id |-> facility_id,
     facility_name |-> facility_name, field_name |-> field_name,
     field_value |-> field_value, row_number |-> row_number,
     confidence |-> confidence]

AgentStep(step_number, step_name, step_description, input_data, output_data) ==
    [step_number |-> step_number, step_name |-> step_name,
     step_description |-> step_description, input_data |-> input_data,
     output_data |-> output_data, citations |-> <<>>, duration_ms |-> None]

\* CitationTracker.__init__
NewTracker == [steps |-> <<>>, current_step_number |-> 0]

\* a lookup that falls back on the newest step for a number it does not find
get_step_or_last(tr, step_number) ==
    LET hits == {i \in DOMAIN tr.steps : tr.steps[i].step_number = step_number}
    IN  IF hits = {} THEN Len(tr.steps) ELSE CHOOSE i \in hits : \A j \in hits : i <= j

\* CitationTracker._get_step: the index of the first step with that number,
\* 0 for None.
_get_step(tr, step_number) ==
    LET hits == {i \in DOMAIN tr.steps : tr.steps[i].step_number = step_number}
    IN  IF hits = {} THEN 0 ELSE CHOOSE i \in hits : \A j \in hits : i <= j

start_step_no_increment(tr, step_name, step_description, input_data) ==
    LET n == tr.current_step_number IN
    [steps |-> Append(tr.steps,
                      AgentStep(n, step_name, step_description, input_data,
                                EmptyDict)),
     current_step_number |-> n]

\* CitationTracker.start_step: the tracker after the call; the value returned
\* is its current_step_number.
start_step(tr, step_name, step_description, input_data) ==
    LET n == tr.current_step_number + 1 IN
    [steps |-> Append(tr.steps,
                      AgentStep(n, step_name, step_description, input_data,
                                EmptyDict)),
     current_step_number |-> n]

end_step_dropped(tr, step_number, output_data, duration_ms) == tr

\* CitationTracker.end_step
end_step(tr, step_number, output_data, duration_ms) ==
    LET i == _get_step(tr, step_number) IN
    IF i = 0 THEN tr
    ELSE [tr EXCEPT !.steps[i].output_data = output_data,
                    !.steps[i].duration_ms = duration_ms]

add_citation_prepend(tr, step_number, citation) ==
    LET i == _get_step(tr, step_number) IN
    IF i = 0 THEN tr
    ELSE [tr EXCEPT !.steps[i].citations = <<citation>> \o @]

\* add_citation_to_step refusing a step that end_step has written
add_citation_open_only(tr, step_number, citation) ==
    LET i == _get_step(tr, step_number) IN
    IF i = 0 \/ tr.steps[i].output_data # EmptyDict THEN tr
    ELSE [tr EXCEPT !.steps[i].citations = Append(@, citation)]

\* CitationTracker.add_citation_to_step, with AgentStep.add_citation
add_citation_to_step(tr, step_number, citation) ==
    LET i == _get_step(tr, step_number) IN
    IF i = 0 THEN tr
    ELSE [tr EXCEPT !.steps[i].citations = Append(@, citation)]

\* add_facility_citation losing the row
add_facility_citation_unplaced(tr, step_number, facility_id, facility_name, field_name, field_value, row_number, confidence) ==
    add_citation_to_step(tr, step_number,
        Citation("facility_row", facility_id, facility_name, field_name,
                 field_value, 0, confidence))

\* CitationTracker.add_facility_citation
add_facility_citation(tr, step_number, facility_id, facility_name, field_name, field_value, row_number, confidence) ==
    add_citation_to_step(tr, step_number,
        Citation("facility_row", facility_id, facility_name, field_name,
                 field_value, row_number, confidence))

\* the citations collected from the newest step back to the oldest
RECURSIVE citations_newest_first(_)
citations_newest_first(steps) ==
    IF steps = <<>> THEN <<>>
    ELSE citations_newest_first(Tail(steps)) \o Head(steps).citations

\* CitationTracker.get_all_citations
RECURSIVE get_all_citations_of(_)
get_all_citations_of(steps) ==
    IF steps = <<>> THEN <<>>
    ELSE Head(steps).citations \o get_all_citations_of(Tail(steps))

get_all_citations(tr) == get_all_citations_of(tr.steps)

\* the list comprehension of get_citations_by_facility
RECURSIVE citations_with_facility(_, _)
citations_with_facility(citations, facility_id) ==
    IF citations = <<>> THEN <<>>
    ELSE (IF Head(citations).facility_id = facility_id
          THEN <<Head(citations)>> ELSE <<>>)
         \o citations_with_facility(Tail(citations), facility_id)

\* CitationTracker.get_citations_by_facility
get_citations_by_facility(tr, facility_id) ==
    citations_with_facility(get_all_citations(tr), facility_id)

\* ---------------------------------------------------- Python values
\* A value that may be a str, None, a number or absent carries its type.

Str(toks) == [t |-> "str", v |-> toks]
PyNone == [t |-> "none"]
PyNum(n) == [t |-> "num", v |-> n]
PyMissing == [t |-> "missing"]
\* float('nan'), what pandas holds for an empty CSV cell
PyNaN == [t |-> "nan"]

Tok(w, c) == [w |-> w, c |-> c]

\* bool(x)
Truthy(x) ==
    CASE x.t = "str" -> x.v # <<>>
      [] x.t = "num" -> x.v # 0
      [] x.t = "nan" -> TRUE
      [] OTHER -> FALSE

\* str.lower and str.title
Lower(s) == Str([i \in DOMAIN s.v |-> Tok(s.v[i].w, "l")])
\* str.title() left out
untitled(s) == s

Title(s) == Str([i \in DOMAIN s.v |-> Tok(s.v[i].w, "t")])

\* The words texts are made of, with their length in characters.
ModelWords == {"cardiac surgery", "bypass", "clinic", "200 surgeries"}
EquipmentWords == {"icu", "2 icu", "broken", "clinic"}
SpecialtyWords == {"cardiology", "clinic"}

WordLen(w) ==
    CASE w = "cardiac surgery" -> 15
      [] w = "bypass" -> 6
      [] w = "clinic" -> 6
      [] w = "200 surgeries" -> 13
      [] w = "dialysis" -> 8
      [] w = "icu" -> 3
      [] w = "2 icu" -> 5
      [] w = "broken" -> 6
      [] w = "cardiology" -> 10
      [] w = "which" -> 5
      [] w = "show" -> 4
      [] w = "hello" -> 5
      [] w = "ashanti" -> 7
      [] w = "hospitals" -> 9
      [] w = "gap" -> 3
      [] w = "desert" -> 6
      [] w = "analyze" -> 7
      [] w = "greater accra" -> 13
      [] w = "greater accra?" -> 14
      [] w = "can perform" -> 11
      [] w = "in" -> 2
      [] w = "we are" -> 6
      [] w = "short on" -> 8
      [] w = "neurosurgeons" -> 13
      [] w = "and our" -> 7
      [] w = "mri" -> 3
      [] w = "broke down" -> 10
      [] w = "last month" -> 10
      [] w = "." -> 1
      [] w = "," -> 1
      [] w = "no" -> 2
      [] w = "surgeon" -> 7
      [] w = "on staff" -> 8
      [] w = "on permanent staff" -> 18
      [] w = "available" -> 9
      [] w = "need more" -> 9
      [] w = "nurses" -> 6
      [] w = "only" -> 4
      [] w = "2" -> 1
      [] w = "doctors" -> 7
      [] w = "surgery" -> 7
      [] w = "works" -> 5
      [] w = "ct scanner" -> 10
      [] w = "general surgery" -> 15
      [] w = "nan" -> 3
      [] w = "operating theater" -> 17
      [] w = "x-ray" -> 5

\* str.find of a vocabulary term inside one lower-case word: its offset, or -1.
FindWord(w, k) ==
    CASE w = k -> 0
      [] w = "cardiac surgery" /\ k = "surgery" -> 8
      [] w = "cardiology" /\ k = "cardio" -> 0
      [] w = "2 icu" /\ k = "icu" -> 2
      [] w = "greater accra?" /\ k = "greater accra" -> 0
      [] w = "general surgery" /\ k = "surgery" -> 8
      [] w = "broke down" /\ k = "broke" -> 0
      [] w = "broken" /\ k = "broke" -> 0
      [] OTHER -> -1

\* The offset of token i of s; tokens are separated by one space.
Off(s, i) == SumSeq([j \in 1..(i - 1) |-> WordLen(s.v[j].w) + 1])

\* len(s)
StrLen(s) == IF s.v = <<>> THEN 0 ELSE Off(s, Len(s.v) + 1) - 1

\* s.find(k) for a lower-case term k: only lower-case text matches it.
Find(s, k) ==
    LET hits == {i \in DOMAIN s.v : s.v[i].c = "l" /\ FindWord(s.v[i].w, k) >= 0}
    IN  IF hits = {} THEN -1
        ELSE LET i == CHOOSE i \in hits : \A j \in hits : i <= j
             IN  Off(s, i) + FindWord(s.v[i].w, k)

\* k in s
In(k, s) == Find(s, k) >= 0

RECURSIVE SubSeqBy(_, _, _)
SubSeqBy(seq, I, i) ==
    IF i > Len(seq) THEN <<>>
    ELSE (IF i \in I THEN <<seq[i]>> ELSE <<>>) \o SubSeqBy(seq, I, i + 1)

\* s[start:end].strip(), to the token: a token the slice cuts is kept whole.
Slice(s, start, end) ==
    Str(SubSeqBy(s.v, {i \in DOMAIN s.v :
                         /\ Off(s, i) < end
                         /\ Off(s, i) + WordLen(s.v[i].w) > start}, 1))

Max(a, b) == IF a >= b THEN a ELSE b
Min(a, b) == IF a <= b THEN a ELSE b

\* ------------------------------------------------ extraction_agent.py

ExtractedCapability(capability_type, name, details, quantity, status, confidence) ==
    [capability_type |-> capability_type, name |-> name, details |-> details,
     quantity |-> quantity, status |-> status, confidence |-> confidence]

\* ExtractionAgent.__init__: self.procedure_keywords
procedure_keywords ==
    {"cardiac surgery", "neurosurgery", "transplantation", "cesarean",
     "appendectomy", "hernia repair", "fracture management", "laparoscopic",
     "cataract surgery", "joint replacement", "bypass", "valve replacement",
     "cleft repair", "orthopedic", "trauma surgery"}

\* ExtractionAgent.__init__: self.equipment_keywords
equipment_keywords ==
    {"mri", "ct scanner", "x-ray", "ultrasound", "ventilator",
     "operating theater", "icu", "dialysis", "catheterization lab",
     "blood bank", "mammography", "endoscopy", "autoclave"}

\* ExtractionAgent.__init__: self.specialty_keywords
specialty_keywords ==
    {"cardiology", "neurology", "orthopedics", "obstetrics", "gynecology",
     "pediatrics", "oncology", "nephrology", "emergency medicine",
     "ophthalmology", "surgery", "internal medicine"}

Perms(S) == {p \in [1..Cardinality(S) -> S] : \A i, j \in DOMAIN p : i # j => p[i] # p[j]}

\* The terms of a vocabulary that occur in some word of W: no other term
\* ever matches a text made of W.
Matchable(keywords, W) == {k \in keywords : \E w \in W : FindWord(w, k) >= 0}

\* The orders in which a process may iterate a vocabulary set, as far as
\* its matchable terms go.
KeywordOrders == Perms(Matchable(procedure_keywords, ModelWords))
EquipmentOrders == Perms(Matchable(equipment_keywords, EquipmentWords))
SpecialtyOrders == Perms(Matchable(specialty_keywords, SpecialtyWords))

\* The keywords of a vocabulary found in text_lower, in iteration order.
MatchedIn(text_lower, keywords, order) ==
    SubSeqBy(order, {i \in DOMAIN order :
                       order[i] \in keywords /\ In(order[i], text_lower)}, 1)

ContextWindow == 50
VolumeWindow == 100
MinProviderLen == 20

\* ExtractionAgent._extract_context
_extract_context(text, keyword, window) ==
    LET pos == Find(Lower(text), keyword) IN
    IF pos = -1 THEN Str(<<>>)
    ELSE Slice(text, Max(0, pos - window),
               Min(StrLen(text), pos + WordLen(keyword) + window))

\* The number the volume pattern (\d+)\s*(?:major\s+)?(?:surgeries|...) finds
\* in one word, 0 when it does not match.
VolumeOf(w) == IF w = "200 surgeries" THEN 200 ELSE 0

\* ExtractionAgent._extract_volume
_extract_volume(text, procedure) ==
    LET context == Lower(_extract_context(text, procedure, VolumeWindow))
        hits == {i \in DOMAIN context.v : VolumeOf(context.v[i].w) # 0}
    IN  IF hits = {} THEN PyNone
        ELSE PyNum(VolumeOf(context.v[CHOOSE i \in hits : \A j \in hits : i <= j].w))

\* The provider's reply to messages.create: it raises, or returns a text
\* that json.loads rejects, or that holds a number, an object or a list.
\* A list item is an object whose "name" is absent, null, a number or a
\* string, or is no object at all.
NameValues ==
    {PyMissing, PyNone, PyNum(5),
     Str(<<Tok("cardiac surgery", "l")>>), Str(<<Tok("dialysis", "t")>>),
     Str(<<Tok("dialysis", "l")>>)}
Entries == {[e |-> "obj", name |-> n] : n \in NameValues} \cup {[e |-> "scalar"]}
Responses ==
    {[k |-> "raise"], [k |-> "invalid"], [k |-> "number"], [k |-> "object"]}
    \cup {[k |-> "list", items |-> l] : l \in SeqsUpTo(Entries, MaxEntries)}

\* p['name'] raises for an item that is no object or has no "name".
EntryRaises(p) == p.e # "obj" \/ p.name = PyMissing

\* ExtractionAgent._llm_extract_procedures: every exception is caught.
_llm_extract_procedures(text, resp) ==
    IF ~Truthy(text) \/ StrLen(text) < MinProviderLen THEN <<>>
    ELSE IF resp.k # "list" THEN <<>>
    ELSE IF \E i \in DOMAIN resp.items : EntryRaises(resp.items[i]) THEN <<>>
    ELSE [i \in DOMAIN resp.items |->
            ExtractedCapability("procedure", resp.items[i].name, PyNone, PyNone,
                                None, 80)]

\* The dict `seen` is a sequence of [key, cap] in insertion order; writing
\* an existing key keeps its place.
SeenIndex(seen, key) ==
    LET hits == {i \in DOMAIN seen : seen[i].key = key}
    IN  IF hits = {} THEN 0 ELSE CHOOSE i \in hits : TRUE

dedup_keep_last(seen, cap) ==
    LET key == Lower(cap.name)
        i == SeenIndex(seen, key)
    IN  IF i = 0 THEN Append(seen, [key |-> key, cap |-> cap])
        ELSE [seen EXCEPT ![i].cap = cap]

\* One turn of the loop of _deduplicate_capabilities (lines 336-339).
dedup_step(seen, cap) ==
    LET key == Lower(cap.name)
        i == SeenIndex(seen, key)
    IN  IF i = 0 THEN Append(seen, [key |-> key, cap |-> cap])
        ELSE IF cap.confidence > seen[i].cap.confidence
             THEN [seen EXCEPT ![i].cap = cap]
             ELSE seen

RECURSIVE dedup_loop(_, _)
dedup_loop(seen, caps) ==
    IF caps = <<>> THEN seen ELSE dedup_loop(dedup_step(seen, Head(caps)), Tail(caps))

\* ExtractionAgent._deduplicate_capabilities: cap.name.lower() raises
\* AttributeError for a name that is no str.
_deduplicate_capabilities(capabilities) ==
    IF \E i \in DOMAIN capabilities : capabilities[i].name.t # "str"
    THEN [raised |-> TRUE, value |-> <<>>]
    ELSE LET seen == dedup_loop(<<>>, capabilities)
         IN  [raised |-> FALSE, value |-> [i \in DOMAIN seen |-> seen[i].cap]]

\* The rule-based loop of _extract_procedures (lines 101-115), the set
\* iterated in the given order.
RuleProcedures(text, order) ==
    LET kws == MatchedIn(Lower(text), procedure_keywords, order)
    IN  [i \in DOMAIN kws |->
           ExtractedCapability("procedure", Title(Str(<<Tok(kws[i], "l")>>)),
                               _extract_context(text, kws[i], ContextWindow),
                               _extract_volume(text, kws[i]), None, 90)]

\* ExtractionAgent._extract_procedures: [raised, value].  text.lower()
\* raises for a truthy text that is no str.
_extract_procedures(text, resp, order) ==
    IF ~Truthy(text) THEN [raised |-> FALSE, value |-> <<>>]
    ELSE IF text.t # "str" THEN [raised |-> TRUE, value |-> <<>>]
    ELSE _deduplicate_capabilities(
             RuleProcedures(text, order) \o _llm_extract_procedures(text, resp))

QuantityWindow == 30
StatusWindow == 60
ShortNameLen == 3

\* The number the patterns (\d+)\s*(?:tesla\s+)?<equipment> and
\* <equipment>\s*\((\d+)...\) find in one word, 0 when neither matches.
QuantityOf(w, equipment) == IF w = "2 icu" /\ equipment = "icu" THEN 2 ELSE 0

\* ExtractionAgent._extract_quantity
_extract_quantity(text, equipment) ==
    LET context == Lower(_extract_context(text, equipment, QuantityWindow))
        hits == {i \in DOMAIN context.v : QuantityOf(context.v[i].w, equipment) # 0}
    IN  IF hits = {} THEN PyNone
        ELSE PyNum(QuantityOf(context.v[CHOOSE i \in hits : \A j \in hits : i <= j].w,
                              equipment))

\* ExtractionAgent._extract_status
_extract_status(text, equipment) ==
    LET context == Lower(_extract_context(text, equipment, StatusWindow)) IN
    IF \E word \in {"broken", "not working", "non-functional", "out of order"} :
         In(word, context)
    THEN "broken"
    ELSE IF \E word \in {"claimed", "claims to have", "not verified"} :
              In(word, context)
         THEN "claimed"
         ELSE "operational"

\* equip.upper() if len(equip) <= 3 else equip.title()
EquipmentName(equip) ==
    Str(<<Tok(equip, IF WordLen(equip) <= ShortNameLen THEN "u" ELSE "t")>>)

\* ExtractionAgent._extract_equipment: [raised, value]
_extract_equipment(text, order) ==
    IF ~Truthy(text) THEN [raised |-> FALSE, value |-> <<>>]
    ELSE IF text.t # "str" THEN [raised |-> TRUE, value |-> <<>>]
    ELSE LET kws == MatchedIn(Lower(text), equipment_keywords, order) IN
         _deduplicate_capabilities(
             [i \in DOMAIN kws |->
                ExtractedCapability("equipment", EquipmentName(kws[i]), PyNone,
                                    _extract_quantity(text, kws[i]),
                                    _extract_status(text, kws[i]), 85)])

\* ExtractionAgent._extract_specialties: [raised, value]
_extract_specialties(text, order) ==
    IF ~Truthy(text) THEN [raised |-> FALSE, value |-> <<>>]
    ELSE IF text.t # "str" THEN [raised |-> TRUE, value |-> <<>>]
    ELSE LET kws == MatchedIn(Lower(text), specialty_keywords, order) IN
         _deduplicate_capabilities(
             [i \in DOMAIN kws |->
                ExtractedCapability("specialty", Title(Str(<<Tok(kws[i], "l")>>)),
                                    _extract_context(text, kws[i], ContextWindow),
                                    PyNone, None, 90)])

Names(caps) == [i \in DOMAIN caps |-> caps[i].name]
WithStatus(caps, status) ==
    SubSeqBy(caps, {i \in DOMAIN caps : caps[i].status = status}, 1)

\* _detect_anomalies without its check of the specialties (lines 308-310)
detect_equipment_anomalies(procedures, equipment, specialties) ==
    LET missing == SubSeqBy(<<"ct scanner", "icu">>,
                     {i \in 1..2 :
                        ~\E k \in DOMAIN equipment :
                            In(<<"ct scanner", "icu">>[i], Lower(equipment[k].name))}, 1)
    IN  IF (\E i \in DOMAIN procedures :
               Lower(procedures[i].name) = Str(<<Tok("cardiac surgery", "l")>>))
           /\ missing # <<>>
        THEN <<[kind |-> "Claims cardiac surgery but missing", items |-> missing]>>
        ELSE <<>>

\* ExtractionAgent._detect_anomalies: each message is [kind, items].
_detect_anomalies(procedures, equipment, specialties) ==
    LET procedure_names == {Lower(procedures[i].name) : i \in DOMAIN procedures}
        equipment_names == {Lower(equipment[i].name) : i \in DOMAIN equipment}
        cardiac == Str(<<Tok("cardiac surgery", "l")>>) \in procedure_names
        required == <<"ct scanner", "icu">>
        missing == SubSeqBy(required,
                     {i \in DOMAIN required :
                        ~\E e \in equipment_names : In(required[i], e)}, 1)
        broken == Names(WithStatus(equipment, "broken"))
        claimed == Names(WithStatus(equipment, "claimed"))
    IN  (IF cardiac /\ missing # <<>>
           THEN <<[kind |-> "Claims cardiac surgery but missing", items |-> missing]>>
           ELSE <<>>)
        \o (IF broken # <<>>
              THEN <<[kind |-> "Non-functional equipment", items |-> broken]>>
              ELSE <<>>)
        \o (IF claimed # <<>>
              THEN <<[kind |-> "Unverified claims", items |-> claimed]>>
              ELSE <<>>)
        \o (IF cardiac /\ ~\E i \in DOMAIN specialties :
                              In("cardio", Lower(specialties[i].name))
              THEN <<[kind |-> "Claims cardiac surgery but no cardiology specialty listed",
                      items |-> <<>>]>>
              ELSE <<>>)

ProcedureWeight == 5
EquipmentWeight == 3
SpecialtyWeight == 4
ScoreCap == 100

\* ExtractionAgent._calculate_capability_score
_calculate_capability_score(procedures, equipment, specialties) ==
    Min(ScoreCap, Len(WithStatus(equipment, "operational")) * EquipmentWeight
                    + Len(procedures) * ProcedureWeight
                    + Len(specialties) * SpecialtyWeight)

\* dict.get(key, default) and dict.get(key) on a facility record
Get(value, default) == IF value = PyMissing THEN default ELSE value
GetS(value) == IF value = Missing THEN None ELSE value

\* extract_from_facility lines 77-90, given the three extracted lists
FacilityResult(facility_data, procedures, equipment, specialties) ==
    IF procedures.raised \/ equipment.raised \/ specialties.raised
    THEN [raised |-> TRUE]
    ELSE [raised |-> FALSE,
          value |->
            [facility_id |-> GetS(facility_data.facility_id),
             facility_name |-> GetS(facility_data.facility_name),
             procedures |-> procedures.value,
             equipment |-> equipment.value,
             specialties |-> specialties.value,
             anomalies |-> _detect_anomalies(procedures.value, equipment.value,
                                             specialties.value),
             capability_score |->
                 _calculate_capability_score(procedures.value, equipment.value,
                                             specialties.value)]]

\* ExtractionAgent.extract_from_facility: [raised, value].  resp is what the
\* provider does when called, orders the iteration orders of the vocabularies.
extract_from_facility(facility_data, resp, orders) ==
    FacilityResult(facility_data,
        _extract_procedures(Get(facility_data.procedures_free_text, Str(<<>>)),
                            resp, orders.procedure),
        _extract_equipment(Get(facility_data.equipment_free_text, Str(<<>>)),
                           orders.equipment),
        _extract_specialties(Get(facility_data.specialties_free_text, Str(<<>>)),
                             orders.specialty))

\* ------------------------------------------------------ analysis_agent.py
\* The module is imported by orchestrator.py and is not among the sources;
\* its two entry points follow sections 4.4 and 4.6 of the specification.

CapabilitiesOf(f) == f.procedures \o f.equipment \o f.specialties

\* The first capability of f whose name contains the term, 0 for none.
FirstMatch(f, capability) ==
    LET caps == CapabilitiesOf(f)
        hits == {i \in DOMAIN caps :
                   capability.v = <<>> \/ In(capability.v[1].w, Lower(caps[i].name))}
    IN  IF hits = {} THEN 0 ELSE CHOOSE i \in hits : \A j \in hits : i <= j

RECURSIVE RankByConfidence(_)
RankByConfidence(matches) ==
    IF matches = <<>> THEN <<>>
    ELSE LET best == CHOOSE i \in DOMAIN matches :
                        /\ \A j \in DOMAIN matches :
                             matches[j].confidence <= matches[i].confidence
                        /\ \A j \in 1..(i - 1) :
                             matches[j].confidence < matches[i].confidence
         IN  <<matches[best]>>
             \o RankByConfidence(SubSeqBy(matches, DOMAIN matches \ {best}, 1))

\* AnalysisAgent.find_facilities_by_capability: the capability/region filter,
\* ranked by confidence.
find_facilities_by_capability(facilities, capability, region) ==
    LET kept == SubSeqBy(facilities,
                    {i \in DOMAIN facilities :
                       /\ region = PyNone \/ facilities[i].region = region
                       /\ FirstMatch(facilities[i], capability) # 0}, 1)
    IN  RankByConfidence(
          [i \in DOMAIN kept |->
             LET cap == CapabilitiesOf(kept[i])[FirstMatch(kept[i], capability)] IN
             [facility |-> kept[i], confidence |-> cap.confidence,
              match_type |-> cap.capability_type, match_name |-> cap.name,
              status |-> cap.status, details |-> cap.details]])

\* AnalysisAgent.analyze_regional_coverage: the aggregator's result bundle.
analyze_regional_coverage(facilities) ==
    [medical_deserts |-> <<>>, capability_gaps |-> <<>>,
     coverage_statistics |->
        [total_facilities |-> Len(facilities),
         facilities_with_anomalies |->
            Cardinality({i \in DOMAIN facilities : facilities[i].anomalies # <<>>})],
     recommendations |-> <<>>]

\* --------------------------------------------------------- orchestrator.py

\* _build_graph: the entry point and the edges
EntryPoint == "understand_query"
END == "__end__"
Nodes == {"understand_query", "extract_capabilities", "analyze_data", "generate_response"}

edge_skips_analysis(node) ==
    CASE node = "understand_query" -> "extract_capabilities"
      [] node = "extract_capabilities" -> "generate_response"
      [] node = "analyze_data" -> "generate_response"
      [] node = "generate_response" -> END

Edge(node) ==
    CASE node = "understand_query" -> "extract_capabilities"
      [] node = "extract_capabilities" -> "analyze_data"
      [] node = "analyze_data" -> "generate_response"
      [] node = "generate_response" -> END

tracker_of_orchestrator(rs, r) ==
    LET others == {o \in DOMAIN rs : o # r /\ rs[o].pc # "idle"}
    IN  IF others = {} THEN NewTracker
        ELSE rs[CHOOSE o \in others : TRUE].state.citation_tracker

\* process_query line 112: "citation_tracker": CitationTracker().  rs are
\* the orchestrator's invocations so far, r the one being set up.
tracker_of_query(rs, r) == NewTracker

\* process_query lines 102-115: initial_state
InitialState(query, records, citation_tracker) ==
    [query |-> query, raw_facilities_data |-> records, intent |-> None,
     entities |-> PyNone, extracted_facilities |-> <<>>,
     analysis_results |-> PyNone, matching_facilities |-> <<>>,
     response |-> PyNone, visualizations |-> PyNone,
     citation_tracker |-> citation_tracker, processing_time_ms |-> 0,
     errors |-> <<>>]

\* The loops of lines 163-166 and 171-174 without their break
last_term(terms, query) ==
    LET hits == {i \in DOMAIN terms : In(terms[i], query)}
    IN  IF hits = {} THEN PyMissing
        ELSE Str(<<Tok(terms[CHOOSE i \in hits : \A j \in hits : i >= j], "l")>>)

\* The first term of the list that occurs in query, PyMissing for none
\* (the for ... break loops of lines 163-166 and 171-174).
FirstTerm(terms, query) ==
    LET hits == {i \in DOMAIN terms : In(terms[i], query)}
    IN  IF hits = {} THEN PyMissing
        ELSE Str(<<Tok(terms[CHOOSE i \in hits : \A j \in hits : i <= j], "l")>>)

regions ==
    <<"greater accra", "ashanti", "northern", "western", "volta",
      "central", "eastern", "upper east", "upper west">>
query_procedures ==
    <<"cardiac surgery", "neurosurgery", "cesarean", "dialysis",
      "transplant", "icu", "ct scan", "mri">>

\* lines 145-155 without the else branch of line 154
classify_without_default(query) ==
    IF \E word \in {"which", "what", "find", "show", "list"} : In(word, query)
    THEN "find_facilities"
    ELSE IF In("analyze", query) \/ In("coverage", query) THEN "analyze_coverage"
    ELSE None

\* lines 145-155
ClassifyIntent(query) ==
    IF \E word \in {"which", "what", "find", "show", "list"} : In(word, query)
    THEN IF In("gap", query) \/ In("missing", query) \/ In("lack", query)
         THEN "identify_gaps"
         ELSE IF In("desert", query) THEN "find_medical_deserts"
         ELSE "find_facilities"
    ELSE IF In("analyze", query) \/ In("coverage", query) THEN "analyze_coverage"
    ELSE "general_query"

\* _understand_query_node, lines 142-177: [raised, state].  A key that
\* entities does not hold is PyMissing.
_understand_query_node(state) ==
    IF state.query.t # "str" THEN [raised |-> TRUE, error |-> "AttributeError"]
    ELSE LET query == Lower(state.query)
             region == FirstTerm(regions, query)
         IN  [raised |-> FALSE,
              state |-> [state EXCEPT
                 !.intent = ClassifyIntent(query),
                 !.entities =
                    [region |-> IF region = PyMissing THEN PyMissing ELSE Title(region),
                     capability |-> FirstTerm(query_procedures, query)]]]

FieldValueLen == 100

\* The loop of _extract_capabilities_node (lines 197-223) from facility
\* number i (counted from 0) on, and its lines 225-233 when it is through:
\* [raised, state].  tr is the tracker the loop writes to.
RECURSIVE ExtractLoop(_, _, _, _, _, _, _)
RECURSIVE ExtractOne(_, _, _, _, _, _, _, _)

\* One turn of the loop, lines 198-223, res being what extract_from_facility
\* did for the facility: facility['facility_id'] and ['facility_name'] are
\* read for every procedure.
ExtractOne(state, i, extracted_facilities, tr, step_id, resp, orders, res) ==
    LET facility == state.raw_facilities_data[i + 1] IN
    IF res.raised THEN [raised |-> TRUE, error |-> "AttributeError"]
    ELSE IF res.value.procedures # <<>>
            /\ (facility.facility_id = Missing \/ facility.facility_name = Missing)
    THEN [raised |-> TRUE, error |-> "KeyError"]
    ELSE LET extracted ==
               [facility_id |-> res.value.facility_id,
                facility_name |-> res.value.facility_name,
                procedures |-> res.value.procedures,
                equipment |-> res.value.equipment,
                specialties |-> res.value.specialties,
                anomalies |-> res.value.anomalies,
                capability_score |-> res.value.capability_score,
                region |-> Get(facility.region, PyNone),
                district |-> GetS(facility.district),
                facility_type |-> GetS(facility.facility_type),
                latitude |-> GetS(facility.latitude),
                longitude |-> GetS(facility.longitude),
                bed_capacity |-> GetS(facility.bed_capacity),
                staff_count |-> GetS(facility.staff_count)]
             field_value ==
               Slice(Get(facility.procedures_free_text, Str(<<>>)), 0, FieldValueLen)
             cite[k \in 0..Len(res.value.procedures)] ==
               IF k = 0 THEN tr
               ELSE add_facility_citation(cite[k - 1], step_id,
                        facility.facility_id, facility.facility_name,
                        "procedures_free_text", field_value, i + 1,
                        res.value.procedures[k].confidence)
         IN  ExtractLoop(state, i + 1, Append(extracted_facilities, extracted),
                         cite[Len(res.value.procedures)], step_id, resp, orders)

ExtractLoop(state, i, extracted_facilities, tr, step_id, resp, orders) ==
    IF i >= Len(state.raw_facilities_data)
    THEN [raised |-> FALSE,
          state |-> [state EXCEPT !.extracted_facilities = extracted_facilities,
                                  !.citation_tracker = tr]]
    ELSE ExtractOne(state, i, extracted_facilities, tr, step_id, resp, orders,
                    extract_from_facility(state.raw_facilities_data[i + 1],
                                          resp, orders))

\* The node with lines 201-209 writing onto the records themselves
OntoRecords(res) ==
    IF res.raised THEN res
    ELSE [raised |-> FALSE,
          state |-> [res.state EXCEPT
                       !.raw_facilities_data = res.state.extracted_facilities]]

extract_onto_records(state, step_id, resp, orders) ==
    OntoRecords(ExtractLoop(state, 0, <<>>, state.citation_tracker, step_id, resp, orders))

\* _extract_capabilities_node, lines 195-233
_extract_capabilities_node(state, step_id, resp, orders) ==
    ExtractLoop(state, 0, <<>>, state.citation_tracker, step_id, resp, orders)

\* lines 260-272 without the loop that cites the matches
matches_uncited(state, step_id, matches) ==
    [raised |-> FALSE, state |-> [state EXCEPT !.matching_facilities = matches]]

\* _analyze_data_node lines 262-275, given the matches found
CiteMatches(state, step_id, matches) ==
    LET cite[k \in 0..Len(matches)] ==
          IF k = 0 THEN state.citation_tracker
          ELSE add_facility_citation(cite[k - 1], step_id,
                   matches[k].facility.facility_id,
                   matches[k].facility.facility_name,
                   matches[k].match_type, matches[k].match_name, 0,
                   matches[k].confidence)
    IN  [raised |-> FALSE,
         state |-> [state EXCEPT !.matching_facilities = matches,
                                 !.citation_tracker = cite[Len(matches)]]]

\* _analyze_data_node, lines 247-282; fault says whether the analysis agent
\* raises.
_analyze_data_node(state, step_id, fault) ==
    IF fault THEN [raised |-> TRUE, error |-> "AnalysisError"]
    ELSE IF state.intent = "find_facilities"
    THEN CiteMatches(state, step_id,
             find_facilities_by_capability(
                 state.extracted_facilities,
                 Get(state.entities.capability, Str(<<>>)),
                 Get(state.entities.region, PyNone)))
    ELSE [raised |-> FALSE,
          state |-> [state EXCEPT !.analysis_results =
                        analyze_regional_coverage(state.extracted_facilities)]]

\* lines 300-317 choosing the template by the intent alone
respond_by_intent_alone(state, fault) ==
    [raised |-> FALSE,
     state |-> [state EXCEPT !.response =
        [template |-> CASE state.intent = "find_facilities" -> "facility_match"
                        [] state.intent = "find_medical_deserts" -> "desert"
                        [] state.intent = "identify_gaps" -> "gap"
                        [] OTHER -> "coverage",
         matches |-> Len(state.matching_facilities),
         analysis |-> state.analysis_results]]]

\* _generate_response_node, lines 300-317: the response is the template
\* chosen and what it renders; fault says whether rendering the agent's
\* results raises.
_generate_response_node(state, fault) ==
    LET template ==
          IF state.intent = "find_facilities" /\ state.matching_facilities # <<>>
          THEN "facility_match"
          ELSE IF state.intent = "find_medical_deserts" /\ state.analysis_results # PyNone
          THEN "desert"
          ELSE IF state.intent = "identify_gaps" /\ state.analysis_results # PyNone
          THEN "gap"
          ELSE IF state.analysis_results # PyNone THEN "coverage"
          ELSE "I couldn't find relevant information for your query."
    IN  IF fault /\ template \in {"facility_match", "desert", "gap", "coverage"}
        THEN [raised |-> TRUE, error |-> "AttributeError"]
        ELSE [raised |-> FALSE,
              state |-> [state EXCEPT !.response =
                 [template |-> template,
                  matches |-> Len(state.matching_facilities),
                  analysis |-> state.analysis_results]]]

\* The arguments a node gives start_step.
NodeStep(node, state) ==
    CASE node = "understand_query" ->
           [name |-> "query_understanding",
            description |-> "Parse natural language query to identify intent and extract entities",
            input |-> [query |-> state.query]]
      [] node = "extract_capabilities" ->
           [name |-> "capability_extraction",
            description |-> "Extract structured medical capabilities from unstructured facility text",
            input |-> [facility_count |-> Len(state.raw_facilities_data)]]
      [] node = "analyze_data" ->
           [name |-> "data_analysis",
            description |-> "Analyze facilities for intent: " \o state.intent,
            input |-> [intent |-> state.intent, entities |-> state.entities]]
      [] node = "generate_response" ->
           [name |-> "response_generation",
            description |-> "Generate natural language response to user query",
            input |-> [intent |-> state.intent]]

TotalOf(facilities, kind) ==
    SumSeq([i \in DOMAIN facilities |-> Len(facilities[i][kind])])

\* The output_data a node gives end_step.
NodeOutput(node, state) ==
    CASE node = "understand_query" ->
           [intent |-> state.intent, entities |-> state.entities]
      [] node = "extract_capabilities" ->
           [extracted_count |-> Len(state.extracted_facilities),
            total_procedures |-> TotalOf(state.extracted_facilities, "procedures"),
            total_equipment |-> TotalOf(state.extracted_facilities, "equipment")]
      [] node = "analyze_data" ->
           [matches_found |-> Len(state.matching_facilities),
            analysis_completed |-> state.analysis_results # PyNone]
      [] node = "generate_response" ->
           [response_length |-> [len_of |-> state.response.template],
            response_type |-> state.intent]

\* CitationTracker.to_dict
to_dict(tr) ==
    [total_steps |-> Len(tr.steps), steps |-> tr.steps,
     total_citations |-> Len(get_all_citations(tr))]

\* CitationTracker.generate_citation_report: the two totals of its header
generate_citation_report(tr) ==
    [total_steps |-> Len(tr.steps), total_citations |-> Len(get_all_citations(tr))]

\* MedicalIDPOrchestrator._format_output
_format_output(state) ==
    [query |-> state.query, response |-> state.response, intent |-> state.intent,
     entities |-> state.entities,
     matching_facilities |-> state.matching_facilities,
     analysis_results |-> state.analysis_results,
     citations |-> to_dict(state.citation_tracker),
     citation_report |-> generate_citation_report(state.citation_tracker),
     processing_time_ms |-> state.processing_time_ms,
     errors |-> state.errors]

error_result_with_ledger(e, query, elapsed) ==
    [error |-> e, query |-> query, processing_time_ms |-> elapsed,
     citations |-> EmptyDict, citation_report |-> EmptyDict]

\* process_query lines 126-131
ErrorResult(e, query, elapsed) ==
    [error |-> e, query |-> query, processing_time_ms |-> elapsed]

\* ------------------------------------------------------ document_parser.py
\* A text is a sequence of tokens as before; "," and "." are tokens of
\* their own, and casing "m" is a word written as in the source data
\* ("CT Scanner").  A score that may have one decimal is held in tenths.

MedicalCapability(capability_type, name, status, confidence, source_text, facility_id) ==
    [capability_type |-> capability_type, name |-> name, status |-> status,
     confidence |-> confidence, source_text |-> source_text,
     facility_id |-> facility_id]

\* IntelligentDocumentParser.__init__: self.specialty_patterns
specialty_patterns ==
    <<"cardiology", "neurosurgery", "oncology", "pediatrics", "orthopedics",
      "obstetrics", "internal medicine", "emergency", "ophthalmology",
      "dentistry", "general medicine", "surgery">>

\* IntelligentDocumentParser.__init__: self.equipment_patterns, as they match
\* lower-case text under re.IGNORECASE
equipment_patterns ==
    <<"mri", "ct scanner", "x-ray", "ultrasound", "ventilator", "icu",
      "operating theater", "catheterization lab", "blood bank", "laboratory",
      "ambulance">>

\* str(row.get(key, '')): str(float('nan')) is 'nan', str(None) is 'None'
TextField(value) ==
    CASE value.t = "missing" -> Str(<<>>)
      [] value.t = "nan" -> Str(<<Tok("nan", "l")>>)
      [] value.t = "none" -> Str(<<Tok("none", "t")>>)
      [] OTHER -> value

\* [s.strip() for s in text.split(',')]
RECURSIVE SplitComma(_)
SplitComma(toks) ==
    LET commas == {i \in DOMAIN toks : toks[i].w = ","} IN
    IF commas = {} THEN <<Str(toks)>>
    ELSE LET c == CHOOSE i \in commas : \A j \in commas : i <= j
         IN  <<Str(SubSeq(toks, 1, c - 1))>> \o SplitComma(SubSeq(toks, c + 1, Len(toks)))

RECURSIVE Flatten(_)
Flatten(ss) == IF ss = <<>> THEN <<>> ELSE Head(ss) \o Flatten(Tail(ss))

\* One column of _extract_structured_fields (lines 143-155, 158-170,
\* 173-185): the names and the capabilities it appends.
StructuredColumn(text, capability_type, facility_id) ==
    IF text.v = <<>> THEN [names |-> <<>>, capabilities |-> <<>>]
    ELSE LET names == SplitComma(text.v) IN
         [names |-> names,
          capabilities |->
             [i \in DOMAIN names |->
                MedicalCapability(capability_type, names[i], "available", 95,
                                  text, facility_id)]]

\* The profile of _extract_structured_fields, given its three columns
WithColumns(profile, specialties, equipment, procedures) ==
    [profile EXCEPT
       !.specialties = specialties.names,
       !.equipment = equipment.names,
       !.procedures = procedures.names,
       !.capabilities = @ \o specialties.capabilities \o equipment.capabilities
                          \o procedures.capabilities]

\* IntelligentDocumentParser._extract_structured_fields
_extract_structured_fields(profile, text_fields, facility_id) ==
    WithColumns(profile,
        StructuredColumn(text_fields.specialties, "specialty", facility_id),
        StructuredColumn(text_fields.equipment, "equipment", facility_id),
        StructuredColumn(text_fields.procedures, "procedure", facility_id))

\* re.finditer(pattern, text_lower): the tokens the pattern occurs in, in
\* order (a token holds a pattern at most once).
MatchesOf(text_lower, pattern) ==
    SubSeqBy([i \in DOMAIN text_lower.v |-> i],
             {i \in DOMAIN text_lower.v : FindWord(text_lower.v[i].w, pattern) >= 0}, 1)

\* 'no ' + equipment in context
NoBefore(context, equipment) ==
    \E i \in DOMAIN context.v :
       /\ context.v[i].w = "no"
       /\ i + 1 \in DOMAIN context.v
       /\ FindWord(context.v[i + 1].w, equipment) = 0

\* _extract_from_notes lines 219-228: the status of the equipment matched in
\* token i of the notes
NotesStatus(notes, i, equipment, context) ==
    IF In("broke", context) \/ In("broken", context) \/ In("not working", context)
    THEN "broken"
    ELSE IF NoBefore(context, equipment) THEN "unavailable" ELSE "available"

\* notes[context_start:context_end].lower() of lines 219-221
NotesContext(notes, i, equipment) ==
    LET start == Off(notes, i) + FindWord(notes.v[i].w, equipment)
        end == start + WordLen(equipment)
    IN  Lower(Slice(notes, Max(0, start - 50), Min(StrLen(notes), end + 50)))

\* lines 230-237
NotesEquipment(notes, i, equipment, context, facility_id) ==
    MedicalCapability("equipment", Str(<<Tok(equipment, "l")>>),
                      NotesStatus(notes, i, equipment, context), 80, context,
                      facility_id)

\* lines 198-210: the specialties mentioned in the notes and not listed
NotesSpecialtiesOf(profile, notes, notes_lower, facility_id) ==
    Flatten([k \in DOMAIN specialty_patterns |->
       IF Str(<<Tok(specialty_patterns[k], "l")>>)
            \in {Lower(profile.specialties[j]) : j \in DOMAIN profile.specialties}
       THEN <<>>
       ELSE [m \in DOMAIN MatchesOf(notes_lower, specialty_patterns[k]) |->
               MedicalCapability("specialty",
                                 Str(<<Tok(specialty_patterns[k], "t")>>),
                                 "mentioned", 70, notes, facility_id)]])

\* lines 213-237
NotesEquipmentOf(notes, notes_lower, facility_id) ==
    Flatten([k \in DOMAIN equipment_patterns |->
       [m \in DOMAIN MatchesOf(notes_lower, equipment_patterns[k]) |->
          NotesEquipment(notes, MatchesOf(notes_lower, equipment_patterns[k])[m],
                         equipment_patterns[k],
                         NotesContext(notes,
                             MatchesOf(notes_lower, equipment_patterns[k])[m],
                             equipment_patterns[k]),
                         facility_id)]])

\* IntelligentDocumentParser._extract_from_notes
_extract_from_notes(profile, notes, facility_id) ==
    IF notes.v = <<>> \/ notes = Str(<<Tok("nan", "l")>>) THEN profile
    ELSE [profile EXCEPT !.capabilities =
            @ \o NotesSpecialtiesOf(profile, notes, Lower(notes), facility_id)
              \o NotesEquipmentOf(notes, Lower(notes), facility_id)]

\* The first token from token i on that is one of stops, 0 for none: where
\* a lazy (.*?) followed by the stop ends.
StopFrom(text, i, stops) ==
    LET js == {j \in DOMAIN text.v : j >= i /\ text.v[j].w \in stops}
    IN  IF js = {} THEN 0 ELSE CHOOSE j \in js : \A k \in js : j <= k

\* The stop of  <token i> (.*?)<stop>: a stop that is a word needs a space
\* on either side of the group, so it is not the token next to i.
StopAfter(text, i, stops) ==
    StopFrom(text, IF stops \subseteq {".", ","} THEN i + 1 ELSE i + 2, stops)

\* match.group(n).strip() for the tokens strictly between i and j
Group(text, i, j) == Str(SubSeq(text.v, i + 1, j - 1))

\* The gaps of one shortage indicator with a single group (lines 248-250,
\* 258-259): trigger (.*?) stop
OneGroupGaps(text, trigger, stops, kind) ==
    LET hits == MatchesOf(text, trigger) IN
    Flatten([m \in DOMAIN hits |->
       IF text.v[hits[m]].w = trigger /\ StopAfter(text, hits[m], stops) # 0
       THEN <<[kind |-> kind,
               items |-> Group(text, hits[m], StopAfter(text, hits[m], stops))]>>
       ELSE <<>>])

\* r'no (.*?) on (permanent )?staff' (line 251) has two groups, so line 261
\* runs: match.group(2) is None unless "permanent " is there.
StaffStops == {"on staff", "on permanent staff"}
NoStaffMatches(text) ==
    {i \in DOMAIN text.v : text.v[i].w = "no" /\ StopAfter(text, i, StaffStops) # 0}
NoStaffRaises(text) ==
    \E i \in NoStaffMatches(text) : text.v[StopAfter(text, i, StaffStops)].w = "on staff"
NoStaffGaps(text) ==
    LET hits == SubSeqBy([i \in DOMAIN text.v |-> i], NoStaffMatches(text), 1) IN
    [m \in DOMAIN hits |->
       [kind |-> "No on staff", items |-> Str(<<Tok("permanent", "l")>>)]]

\* r'only (\d+) (.*?) on staff' (line 252): 'Limited {}: only {} available'
IsNumber(w) == w \in {"2", "200"}
OnlyGaps(text) ==
    LET hits == MatchesOf(text, "only") IN
    Flatten([m \in DOMAIN hits |->
       IF /\ text.v[hits[m]].w = "only"
          /\ hits[m] + 1 \in DOMAIN text.v
          /\ IsNumber(text.v[hits[m] + 1].w)
          /\ StopAfter(text, hits[m] + 1, {"on staff"}) # 0
       THEN <<[kind |-> "Limited",
               items |-> Group(text, hits[m] + 1,
                               StopAfter(text, hits[m] + 1, {"on staff"})),
               only |-> text.v[hits[m] + 1].w]>>
       ELSE <<>>])

\* lines 247-263: the gaps of the shortage indicators, in order
ShortageGaps(text_lower) ==
    OneGroupGaps(text_lower, "short on", {".", ","}, "Staff shortage")
    \o OneGroupGaps(text_lower, "need more", {".", ","}, "Urgent need")
    \o OneGroupGaps(text_lower, "no", {"available"}, "Missing")
    \o NoStaffGaps(text_lower)
    \o OnlyGaps(text_lower)

critical_equipment == <<"ct scanner", "mri", "icu", "operating theater">>

\* re.search(f'{equip_lower}.*?broke', text_lower)
BrokeAfter(text_lower, equip) ==
    \E i, j \in DOMAIN text_lower.v :
       /\ i < j
       /\ FindWord(text_lower.v[i].w, equip) >= 0
       /\ FindWord(text_lower.v[j].w, "broke") >= 0

\* lines 266-274
CriticalGaps(text_lower) ==
    Flatten([k \in DOMAIN critical_equipment |->
       IF ~In(critical_equipment[k], text_lower) THEN <<>>
       ELSE IF NoBefore(text_lower, critical_equipment[k])
       THEN <<[kind |-> "No", items |-> Str(<<Tok(critical_equipment[k], "m")>>)]>>
       ELSE IF BrokeAfter(text_lower, critical_equipment[k])
       THEN <<[kind |-> "broken/awaiting repair",
               items |-> Str(<<Tok(critical_equipment[k], "m")>>)]>>
       ELSE <<>>])

advanced_equipment == <<"mri", "ct scanner", "cardiac catheterization">>

\* lines 277-283
SuspiciousClaims(profile) ==
    IF profile.facility_type # "District Hospital" THEN <<>>
    ELSE SubSeqBy(advanced_equipment,
           {k \in DOMAIN advanced_equipment :
              \E j \in DOMAIN profile.equipment :
                 In(advanced_equipment[k], Lower(profile.equipment[j]))}, 1)

\* IntelligentDocumentParser._detect_gaps: [raised, profile]
_detect_gaps(profile, text, facility_id) ==
    IF NoStaffRaises(Lower(text)) THEN [raised |-> TRUE, error |-> "AttributeError"]
    ELSE [raised |-> FALSE,
          profile |-> [profile EXCEPT
             !.gaps = @ \o ShortageGaps(Lower(text)) \o CriticalGaps(Lower(text)),
             !.urgent_needs = @ \o ShortageGaps(Lower(text)),
             !.suspicious_claims = @ \o SuspiciousClaims(profile)]]

\* type_weights.get(profile.facility_type, 0.3), in tenths
TypeWeight(facility_type) ==
    CASE facility_type = "Teaching Hospital" -> 10
      [] facility_type = "Regional Hospital" -> 7
      [] facility_type = "District Hospital" -> 4
      [] facility_type = "Mission Hospital" -> 5
      [] OTHER -> 3

critical_missing == <<"ct scanner", "mri", "icu", "operating theater">>

\* The capability score without its cap
capability_score_uncapped(specialty_count, equipment_count, procedure_count, base_weight) ==
    (specialty_count * 5 + equipment_count * 3 + procedure_count * 2) * base_weight

\* lines 303-307, in tenths
CapabilityScore(specialty_count, equipment_count, procedure_count, base_weight) ==
    Min(1000, (specialty_count * 5 + equipment_count * 3 + procedure_count * 2)
                * base_weight)

\* lines 310-327
DesertRiskScore(capability_score, gaps, equipment) ==
    Min(100,
        (IF capability_score < 300 THEN 30
         ELSE IF capability_score < 500 THEN 15 ELSE 0)
        + Min(30, Len(gaps) * 5)
        + 10 * Cardinality({k \in DOMAIN critical_missing :
                 ~\E j \in DOMAIN equipment :
                     In(critical_missing[k], Lower(equipment[j]))}))

\* lines 309-327, given the capability score
WithScores(profile, capability_score) ==
    [profile EXCEPT
       !.capability_score = capability_score,
       !.desert_risk_score =
           DesertRiskScore(capability_score, profile.gaps, profile.equipment)]

\* IntelligentDocumentParser._compute_scores
_compute_scores(profile) ==
    WithScores(profile,
        CapabilityScore(Len(profile.specialties), Len(profile.equipment),
                        Len(profile.procedures), TypeWeight(profile.facility_type)))

\* FacilityProfile(...) of lines 104-111
FacilityProfile(row) ==
    [facility_id |-> row.facility_id, facility_name |-> row.facility_name,
     region |-> row.region, district |-> row.district,
     facility_type |-> row.facility_type,
     specialties |-> <<>>, equipment |-> <<>>, procedures |-> <<>>,
     gaps |-> <<>>, urgent_needs |-> <<>>, suspicious_claims |-> <<>>,
     capabilities |-> <<>>, capability_score |-> 0, desert_risk_score |-> 0]

\* lines 114-121
TextFields(row) ==
    [specialties |-> TextField(row.specialties),
     equipment |-> TextField(row.equipment),
     procedures |-> TextField(row.procedures),
     staff_notes |-> TextField(row.staff_notes)]

\* ' '.join(text_fields.values())
CombinedText(text_fields) ==
    Str(text_fields.specialties.v \o text_fields.equipment.v
        \o text_fields.procedures.v \o text_fields.staff_notes.v)

\* lines 129-135, given the profile of steps 1 and 2
GapsAndScores(detected) ==
    IF detected.raised THEN detected
    ELSE [raised |-> FALSE, profile |-> _compute_scores(detected.profile)]

\* IntelligentDocumentParser.extract_capabilities: [raised, profile]
extract_capabilities(row) ==
    GapsAndScores(
        _detect_gaps(
            _extract_from_notes(
                _extract_structured_fields(FacilityProfile(row), TextFields(row),
                                           row.facility_id),
                TextFields(row).staff_notes, row.facility_id),
            CombinedText(TextFields(row)), row.facility_id))

\* identify_medical_deserts: an average is held as its sum and its count.
RECURSIVE RegionsOf(_, _, _)
RegionsOf(profiles, i, seen) ==
    IF i > Len(profiles) THEN seen
    ELSE RegionsOf(profiles, i + 1,
             IF \E k \in DOMAIN seen : seen[k] = profiles[i].region
             THEN seen ELSE Append(seen, profiles[i].region))

\* region_data[region] (lines 353-358)
RegionFacilities(profiles, region) ==
    SubSeqBy(profiles, {i \in DOMAIN profiles : profiles[i].region = region}, 1)

\* sum(...) / len(facilities)
Average(numbers) == [sum |-> SumSeq(numbers), count |-> Len(numbers)]

\* The comparison of line 367 made strict
more_than(avg, threshold) == avg.sum > threshold * avg.count

\* avg_desert_score >= threshold (line 367)
AtLeast(avg, threshold) == avg.sum >= threshold * avg.count

\* lines 362-377 for one region: the entry appended, if any
RegionDesert(region, facilities, threshold) ==
    IF AtLeast(Average([i \in DOMAIN facilities |-> facilities[i].desert_risk_score]),
               threshold)
    THEN <<[region |-> region,
            desert_risk_score |->
               Average([i \in DOMAIN facilities |-> facilities[i].desert_risk_score]),
            avg_capability_score |->
               Average([i \in DOMAIN facilities |-> facilities[i].capability_score]),
            facility_count |-> Len(facilities),
            total_gaps |-> SumSeq([i \in DOMAIN facilities |-> Len(facilities[i].gaps)]),
            facilities |-> [i \in DOMAIN facilities |-> facilities[i].facility_name],
            critical_gaps |->
               UNION {{facilities[i].gaps[k] : k \in DOMAIN facilities[i].gaps} :
                         i \in DOMAIN facilities}]>>
    ELSE <<>>

\* a.desert_risk_score < b.desert_risk_score
AvgLess(a, b) == a.sum * b.count < b.sum * a.count

\* sorted(deserts, key=..., reverse=True) (line 378): highest first, equal
\* scores in their first order
InsertDesert(sorted, d) ==
    LET after == {i \in DOMAIN sorted :
                     AvgLess(sorted[i].desert_risk_score, d.desert_risk_score)}
        k == IF after = {} THEN Len(sorted) + 1
             ELSE CHOOSE i \in after : \A j \in after : i <= j
    IN  SubSeq(sorted, 1, k - 1) \o <<d>> \o SubSeq(sorted, k, Len(sorted))

RECURSIVE SortDeserts(_, _, _)
SortDeserts(deserts, i, sorted) ==
    IF i > Len(deserts) THEN sorted
    ELSE SortDeserts(deserts, i + 1, InsertDesert(sorted, deserts[i]))

DesertsOf(profiles, seen, threshold) ==
    Flatten([k \in DOMAIN seen |->
               RegionDesert(seen[k], RegionFacilities(profiles, seen[k]),
                            threshold)])

identify_medical_deserts(profiles, threshold) ==
    SortDeserts(DesertsOf(profiles, RegionsOf(profiles, 1, <<>>), threshold), 1, <<>>)

\* ------------------------------------- medical_desert_agent/demo.py
\* SimpleDocumentParser._compute_scores: the capability score in tenths
\* (lines 125-138) and the risk, where a gap weighs 10 and no critical
\* equipment is looked for (lines 141-150).
SimpleCapabilityScore(profile) ==
    Min(1000, (Len(profile.specialties) * 5 + Len(profile.equipment) * 3
                 + Len(profile.procedures) * 2) * TypeWeight(profile.facility_type))

SimpleRisk(capability_score, gaps) ==
    Min(100, (IF capability_score < 300 THEN 30
              ELSE IF capability_score < 500 THEN 15 ELSE 0)
             + Min(30, Len(gaps) * 10))

SimpleComputeScores(profile) ==
    [profile EXCEPT
       !.capability_score = SimpleCapabilityScore(profile),
       !.desert_risk_score = SimpleRisk(SimpleCapabilityScore(profile), profile.gaps)]

\* ------------------------------------ the ledger driven call by call

\* The k-th start_step call of the driver names its step StepNameOf(k).
StepNames == <<"query_parsing", "data_extraction", "gap_analysis">>
StepNameOf(k) == StepNames[((k - 1) % Len(StepNames)) + 1]
\* end_step's (output_data, duration_ms) arguments
EndArgs == {<<[out |-> "A"], None>>, <<[out |-> "B"], "7.5">>}
StepArgs == 0..(MaxSteps + 1)

Idle == [t \in 1..NThreads |-> [pc |-> "off"]]
NoRuns == [r \in 1..NRuns |-> [pc |-> "off"]]
NoExt == [pc |-> "off"]

Init ==
    /\ tracker = NewTracker
    /\ returned = <<>>
    /\ ended = {}
    /\ thr = Idle
    /\ runs = NoRuns
    /\ ext = NoExt

StartStep ==
    /\ Len(tracker.steps) < MaxSteps
    /\ LET name == StepNameOf(Len(returned) + 1) IN
         /\ tracker' = start_step(tracker, name, "description", "input")
         /\ returned' = Append(returned, tracker'.current_step_number)
    /\ UNCHANGED <<ended, thr, runs, ext>>

EndStep ==
    /\ \E n \in StepArgs, a \in EndArgs :
         /\ tracker' = end_step(tracker, n, a[1], a[2])
         /\ ended' = IF _get_step(tracker, n) = 0 THEN ended ELSE ended \cup {n}
    /\ UNCHANGED <<returned, thr, runs, ext>>

AddCitationToStep ==
    /\ Len(get_all_citations(tracker)) < MaxCitations
    /\ \E n \in StepArgs :
         tracker' = add_citation_to_step(tracker, n,
                        Citation("inference", None, None, None, None, 0, 100))
    /\ UNCHANGED <<returned, ended, thr, runs, ext>>

AddFacilityCitation ==
    /\ Len(get_all_citations(tracker)) < MaxCitations
    /\ \E n \in StepArgs :
         tracker' = add_facility_citation(tracker, n, "FAC001", "name",
                        "procedures_free_text", "value", 1, 100)
    /\ UNCHANGED <<returned, ended, thr, runs, ext>>

Next == StartStep \/ EndStep \/ AddCitationToStep \/ AddFacilityCitation

Spec == Init /\ [][Next]_vars

\* ------------------------- start_step called from several threads at once
\* The method takes no lock; between any two of its statements, and between
\* the read and the write of the += on line 73, another thread may run.

InitConc ==
    /\ tracker = NewTracker
    /\ returned = <<>>
    /\ ended = {}
    /\ thr = [t \in 1..NThreads |->
                [pc |-> "idle", reg |-> 0, step_number |-> 0, calls |-> 0]]
    /\ runs = NoRuns
    /\ ext = NoExt

\* a thread enters start_step
TCall(t) ==
    /\ thr[t].pc = "idle"
    /\ thr[t].calls < MaxCalls
    /\ thr' = [thr EXCEPT ![t].pc = "load", ![t].calls = @ + 1]
    /\ UNCHANGED <<tracker, returned, ended, runs, ext>>

\* line 73, the read of self.current_step_number
TLoad(t) ==
    /\ thr[t].pc = "load"
    /\ thr' = [thr EXCEPT ![t].pc = "store",
                          ![t].reg = tracker.current_step_number]
    /\ UNCHANGED <<tracker, returned, ended, runs, ext>>

\* line 73, the write of self.current_step_number
TStore(t) ==
    /\ thr[t].pc = "store"
    /\ tracker' = [tracker EXCEPT !.current_step_number = thr[t].reg + 1]
    /\ thr' = [thr EXCEPT ![t].pc = "construct"]
    /\ UNCHANGED <<returned, ended, runs, ext>>

\* lines 74-80: AgentStep(step_number=self.current_step_number, ...)
TConstruct(t) ==
    /\ thr[t].pc = "construct"
    /\ thr' = [thr EXCEPT ![t].pc = "append",
                          ![t].step_number = tracker.current_step_number]
    /\ UNCHANGED <<tracker, returned, ended, runs, ext>>

\* line 81: self.steps.append(step)
TAppend(t) ==
    /\ thr[t].pc = "append"
    /\ tracker' = [tracker EXCEPT !.steps =
                     Append(@, AgentStep(thr[t].step_number, StepNameOf(t),
                                         "description", "input", EmptyDict))]
    /\ thr' = [thr EXCEPT ![t].pc = "return"]
    /\ UNCHANGED <<returned, ended, runs, ext>>

\* line 82: return self.current_step_number
TReturn(t) ==
    /\ thr[t].pc = "return"
    /\ returned' = Append(returned, tracker.current_step_number)
    /\ thr' = [thr EXCEPT ![t].pc = "idle"]
    /\ UNCHANGED <<tracker, ended, runs, ext>>

NextConc ==
    \E t \in 1..NThreads :
        TCall(t) \/ TLoad(t) \/ TStore(t) \/ TConstruct(t) \/ TAppend(t) \/ TReturn(t)

SpecConc == InitConc /\ [][NextConc]_vars

\* ------------------------------------------- process_query, node by node
\* A run is one process_query invocation: pc is the graph node it is at (or
\* idle, __end__, done, error), phase the part of the node that runs next:
\* its start_step call, its body, its end_step call and return.

IdleRuns == [r \in 1..NRuns |-> [pc |-> "idle"]]

\* process_query lines 99-119, up to the graph's entry point
Call(r, query, records) ==
    /\ runs[r].pc = "idle"
    /\ runs' = [runs EXCEPT ![r] =
                  [pc |-> EntryPoint, phase |-> "start",
                   state |-> InitialState(query, records, tracker_of_query(runs, r)),
                   step_id |-> 0, clock |-> 0, result |-> PyNone,
                   visited |-> <<>>]]
    /\ UNCHANGED <<tracker, returned, ended, thr, ext>>

\* tracker.start_step(...) at the head of a node (lines 135-140, 188-193,
\* 237-245, 293-298)
NodeStart(r) ==
    /\ runs[r].pc \in Nodes
    /\ runs[r].phase = "start"
    /\ LET run == runs[r]
           a == NodeStep(run.pc, run.state)
           tr == start_step(run.state.citation_tracker, a.name, a.description, a.input)
       IN  runs' = [runs EXCEPT ![r].state.citation_tracker = tr,
                                ![r].step_id = tr.current_step_number,
                                ![r].phase = "body",
                                ![r].clock = @ + 1,
                                ![r].visited = Append(@, run.pc)]
    /\ UNCHANGED <<tracker, returned, ended, thr, ext>>

\* What the body of the node at run.pc does, given what the provider and
\* the analysis agent do in it.
NodeBodyResult(run, resp, orders, fault) ==
    CASE run.pc = "understand_query" -> _understand_query_node(run.state)
      [] run.pc = "extract_capabilities" ->
           _extract_capabilities_node(run.state, run.step_id, resp, orders)
      [] run.pc = "analyze_data" -> _analyze_data_node(run.state, run.step_id, fault)
      [] run.pc = "generate_response" -> _generate_response_node(run.state, fault)

\* The run after the body of its node returned or raised: an exception
\* leaves graph.invoke and is caught on line 126.
AfterBody(run, res) ==
    IF res.raised
    THEN [run EXCEPT
            !.pc = "error",
            !.clock = @ + 1,
            !.result = ErrorResult(res.error, run.state.query, run.clock + 1)]
    ELSE [run EXCEPT !.state = res.state, !.phase = "end", !.clock = @ + 1]

\* The body of a node, with what the provider, the vocabularies' iteration
\* and the analysis agent do in it.
NodeBody(r, resps, faults) ==
    /\ runs[r].pc \in Nodes
    /\ runs[r].phase = "body"
    /\ \E resp \in resps, order \in KeywordOrders, fault \in faults,
          eo \in EquipmentOrders, so \in SpecialtyOrders :
         runs' = [runs EXCEPT ![r] =
                    AfterBody(runs[r],
                        NodeBodyResult(runs[r], resp,
                            [procedure |-> order, equipment |-> eo, specialty |-> so],
                            fault))]
    /\ UNCHANGED <<tracker, returned, ended, thr, ext>>

\* tracker.end_step(step_id, {...}) and return state: the graph follows the
\* node's edge.
NodeEnd(r) ==
    /\ runs[r].pc \in Nodes
    /\ runs[r].phase = "end"
    /\ LET run == runs[r] IN
         runs' = [runs EXCEPT
            ![r].state.citation_tracker =
                end_step(@, run.step_id, NodeOutput(run.pc, run.state), None),
            ![r].pc = Edge(run.pc),
            ![r].phase = "start",
            ![r].clock = @ + 1]
    /\ UNCHANGED <<tracker, returned, ended, thr, ext>>

\* process_query lines 122-124
Finish(r) ==
    /\ runs[r].pc = END
    /\ LET run == runs[r] IN
         runs' = [runs EXCEPT
            ![r].pc = "done",
            ![r].clock = @ + 1,
            ![r].state.processing_time_ms = run.clock + 1,
            ![r].result = _format_output(
                 [run.state EXCEPT !.processing_time_ms = run.clock + 1])]
    /\ UNCHANGED <<tracker, returned, ended, thr, ext>>

\* ------------------------------------------------ one query, any input

Rec(id, name, proc, equip, spec, region) ==
    [facility_id |-> id, facility_name |-> name, procedures_free_text |-> proc,
     equipment_free_text |-> equip, specialties_free_text |-> spec,
     region |-> region, district |-> "Accra Metro",
     facility_type |-> "Teaching Hospital", latitude |-> "5.5",
     longitude |-> "-0.2", bed_capacity |-> "200", staff_count |-> "50"]

GreaterAccra == Str(<<Tok("greater accra", "t")>>)
Ashanti == Str(<<Tok("ashanti", "t")>>)
CardiacBypass == Str(<<Tok("cardiac surgery", "t"), Tok("bypass", "l")>>)

\* The rows of facilities_df: a cell holds a string, or NaN where the CSV
\* cell was empty.
Rows ==
    {Rec("FAC001", "Korle Bu", CardiacBypass, Str(<<Tok("icu", "u")>>),
         Str(<<Tok("cardiology", "t")>>), GreaterAccra),
     Rec("FAC002", "Komfo Anokye", Str(<<>>),
         Str(<<Tok("broken", "l"), Tok("icu", "l")>>), Str(<<>>), Ashanti),
     Rec("FAC003", "Tamale", Str(<<Tok("cardiac surgery", "l")>>), Str(<<>>),
         Str(<<>>), Ashanti),
     Rec("FAC005", "Bolgatanga", PyNaN, Str(<<>>), Str(<<>>), Ashanti)}

\* The columns facilities_df has: all of them, or all but one.
Frames == {"all", "no facility_id", "no specialties_free_text"}

\* facilities_df.to_dict('records') (line 105): every record has the
\* frame's columns as its keys.
ToRecords(rows, frame) ==
    [i \in DOMAIN rows |->
       CASE frame = "all" -> rows[i]
         [] frame = "no facility_id" -> [rows[i] EXCEPT !.facility_id = Missing]
         [] frame = "no specialties_free_text" ->
              [rows[i] EXCEPT !.specialties_free_text = PyMissing]]

\* "Which hospitals can perform cardiac surgery in Greater Accra?"
CardiacQuery ==
    Str(<<Tok("which", "t"), Tok("hospitals", "l"), Tok("can perform", "l"),
          Tok("cardiac surgery", "l"), Tok("in", "l"), Tok("greater accra?", "t")>>)

\* "which icu dialysis ashanti greater accra": two regions and two
\* capabilities, each pair against the order of its vocabulary
SeveralTermsQuery ==
    Str(<<Tok("which", "l"), Tok("icu", "l"), Tok("dialysis", "l"),
          Tok("ashanti", "l"), Tok("greater accra", "l")>>)

Queries ==
    {CardiacQuery, SeveralTermsQuery,
     Str(<<Tok("which", "l"), Tok("gap", "l")>>),
     Str(<<Tok("show", "t"), Tok("desert", "l")>>),
     Str(<<Tok("analyze", "l"), Tok("ashanti", "l")>>),
     Str(<<Tok("hello", "l")>>),
     PyNone}

RunResponses ==
    {[k |-> "raise"],
     [k |-> "list", items |-> <<[e |-> "obj", name |-> Str(<<Tok("dialysis", "t")>>)]>>],
     [k |-> "list", items |-> <<[e |-> "obj", name |-> PyNone]>>]}

InitRun ==
    /\ tracker = NewTracker
    /\ returned = <<>>
    /\ ended = {}
    /\ thr = Idle
    /\ runs = IdleRuns
    /\ ext = NoExt

ProcessQuery ==
    \E query \in Queries, rows \in SeqsUpTo(Rows, MaxFacilities), frame \in Frames :
        Call(1, query, ToRecords(rows, frame))

NextRun ==
    \/ ProcessQuery
    \/ NodeStart(1)
    \/ NodeBody(1, RunResponses, BOOLEAN)
    \/ NodeEnd(1)
    \/ Finish(1)

SpecRun == InitRun /\ [][NextRun]_vars

\* ------------------------------------- several queries on one orchestrator

\* Run r asks its own question about its own facility.
RunTerms == <<"cardiac surgery", "desert", "gap", "hello">>
QueryOf(r) ==
    Str(<<Tok("which", "l"), Tok("hospitals", "l"),
          Tok(RunTerms[((r - 1) % Len(RunTerms)) + 1], "l")>>)
FacilityIdOf(r) == "FAC" \o ToString(r)
RecordsOf(r) ==
    <<Rec(FacilityIdOf(r), "Korle Bu", CardiacBypass, Str(<<Tok("icu", "u")>>),
          PyMissing, GreaterAccra)>>

ProcessQueryOf(r) == Call(r, QueryOf(r), RecordsOf(r))

NextQueries ==
    \E r \in 1..NRuns :
        \/ ProcessQueryOf(r)
        \/ NodeStart(r)
        \/ NodeBody(r, {[k |-> "raise"]}, {FALSE})
        \/ NodeEnd(r)
        \/ Finish(r)

SpecQueries == InitRun /\ [][NextQueries]_vars

\* --------------------------------------- one call of _extract_procedures

TextTokens ==
    {Tok(w, "l") : w \in ModelWords} \cup {Tok("cardiac surgery", "t")}
Texts == {Str(toks) : toks \in SeqsUpTo(TextTokens, MaxToks)}

InitProc ==
    /\ tracker = NewTracker
    /\ returned = <<>>
    /\ ended = {}
    /\ thr = Idle
    /\ runs = NoRuns
    /\ ext \in {[pc |-> "call", text |-> t, resp |-> r, order |-> o] :
                  t \in Texts, r \in Responses, o \in KeywordOrders}

ExtractProcedures ==
    /\ ext.pc = "call"
    /\ LET r == _extract_procedures(ext.text, ext.resp, ext.order) IN
         ext' = [pc |-> IF r.raised THEN "raised" ELSE "returned",
                 text |-> ext.text, resp |-> ext.resp, order |-> ext.order,
                 result |-> r.value]
    /\ UNCHANGED <<tracker, returned, ended, thr, runs>>

NextProc == ExtractProcedures

SpecProc == InitProc /\ [][NextProc]_vars

\* -------------------------------- one call of extract_capabilities

Cardiology == Tok("cardiology", "t")
Comma == Tok(",", "l")
ShortOnNotes ==
    <<Tok("we are", "t"), Tok("short on", "l"), Tok("neurosurgeons", "l"),
      Tok("and our", "l"), Tok("mri", "u"), Tok("broke down", "l"),
      Tok("last month", "l")>>

\* What a cell of the four text columns may hold: nothing (the column is
\* absent), NaN (the CSV cell was empty), or a string.
SpecialtiesCells ==
    {PyMissing, PyNaN, Str(<<>>),
     Str(<<Cardiology, Comma, Tok("general surgery", "t")>>),
     Str(<<Cardiology, Comma, Tok("cardiology", "l")>>)}
EquipmentCells ==
    {PyNaN, Str(<<>>), Str(<<Tok("ct scanner", "m"), Comma, Tok("icu", "u")>>),
     Str(<<Tok("mri", "u")>>)}
ProceduresCells == {PyMissing, PyNaN, Str(<<>>), Str(<<Tok("surgery", "t")>>)}
NotesCells ==
    {PyMissing, PyNaN, Str(<<>>), Str(ShortOnNotes),
     Str(ShortOnNotes \o <<Tok(".", "l")>>),
     Str(<<Tok("no", "t"), Tok("surgeon", "l"), Tok("on staff", "l")>>),
     Str(<<Tok("no", "t"), Tok("mri", "u"), Tok("available", "l"), Comma,
           Tok("need more", "l"), Tok("nurses", "l"), Tok(".", "l")>>),
     Str(<<Tok("only", "t"), Tok("2", "l"), Tok("doctors", "l"),
           Tok("on staff", "l")>>)}
FacilityTypes == {"Teaching Hospital", "District Hospital", "Health Centre"}

ParserRows ==
    {[facility_id |-> "GH-001", facility_name |-> "Korle Bu", region |-> "Ashanti",
      district |-> "Kumasi", facility_type |-> ft, specialties |-> sp,
      equipment |-> eq, procedures |-> pr, staff_notes |-> sn] :
        ft \in FacilityTypes, sp \in SpecialtiesCells, eq \in EquipmentCells,
        pr \in ProceduresCells, sn \in NotesCells}

InitParse ==
    /\ tracker = NewTracker
    /\ returned = <<>>
    /\ ended = {}
    /\ thr = Idle
    /\ runs = NoRuns
    /\ ext \in {[pc |-> "row", row |-> row] : row \in ParserRows}

\* What the call leaves: the profile, or the exception
Parsed(row, res) ==
    IF res.raised THEN [pc |-> "raised", row |-> row, error |-> res.error]
    ELSE [pc |-> "profile", row |-> row, profile |-> res.profile]

ExtractCapabilities ==
    /\ ext.pc = "row"
    /\ ext' = Parsed(ext.row, extract_capabilities(ext.row))
    /\ UNCHANGED <<tracker, returned, ended, thr, runs>>

NextParse == ExtractCapabilities

SpecParse == InitParse /\ [][NextParse]_vars

\* ------------------------------------------ the three score functions
\* One profile, scored by the document parser, by the extraction agent and
\* by the demo parser.  The lists hold any number of entries up to the
\* bounds; the equipment is the critical items first, or none of them.

MaxCount == 13
MaxEquipment == 5
MaxGaps == 7

ScoreTypes ==
    {"Teaching Hospital", "Regional Hospital", "District Hospital",
     "Mission Hospital", "Health Centre"}

CountedName(i, critical) ==
    IF critical /\ i <= Len(critical_missing)
    THEN Str(<<Tok(critical_missing[i], "m")>>)
    ELSE Str(<<Tok("x-ray", "m")>>)

ScoreInputs ==
    [facility_type : ScoreTypes, specialties : 0..MaxCount,
     equipment : 0..MaxEquipment, procedures : 0..MaxCount, gaps : 0..MaxGaps,
     critical : BOOLEAN, broken : BOOLEAN]

\* The profile the counts stand for
CountedProfile(in) ==
    [facility_type |-> in.facility_type,
     specialties |-> [i \in 1..in.specialties |-> Str(<<Cardiology>>)],
     equipment |-> [i \in 1..in.equipment |-> CountedName(i, in.critical)],
     procedures |-> [i \in 1..in.procedures |-> Str(<<Tok("surgery", "t")>>)],
     gaps |-> [i \in 1..in.gaps |-> "Broken equipment"],
     capability_score |-> 0, desert_risk_score |-> 0]

\* The equipment claims of the extraction agent: the first one is broken
\* or all are operational
CountedEquipment(in) ==
    [i \in 1..in.equipment |->
       [name |-> CountedName(i, in.critical),
        status |-> IF in.broken /\ i = 1 THEN "broken" ELSE "operational"]]

InitScores ==
    /\ tracker = NewTracker
    /\ returned = <<>>
    /\ ended = {}
    /\ thr = Idle
    /\ runs = NoRuns
    /\ ext \in {[pc |-> "counts", in |-> in] : in \in ScoreInputs}

Scored(pc, in, profile) ==
    [pc |-> pc, in |-> in, capability_score |-> profile.capability_score,
     desert_risk_score |-> profile.desert_risk_score]

ParserScores ==
    /\ ext.pc = "counts"
    /\ ext' = Scored("parser", ext.in, _compute_scores(CountedProfile(ext.in)))
    /\ UNCHANGED <<tracker, returned, ended, thr, runs>>

DemoScores ==
    /\ ext.pc = "counts"
    /\ ext' = Scored("demo", ext.in, SimpleComputeScores(CountedProfile(ext.in)))
    /\ UNCHANGED <<tracker, returned, ended, thr, runs>>

AgentScore ==
    /\ ext.pc = "counts"
    /\ ext' = [pc |-> "agent", in |-> ext.in,
               capability_score |->
                  _calculate_capability_score(
                      [i \in 1..ext.in.procedures |-> [name |-> "surgery"]],
                      CountedEquipment(ext.in),
                      [i \in 1..ext.in.specialties |-> [name |-> "cardiology"]])]
    /\ UNCHANGED <<tracker, returned, ended, thr, runs>>

NextScores == ParserScores \/ DemoScores \/ AgentScore

SpecScores == InitScores /\ [][NextScores]_vars

\* ------------------------------------ one call of identify_medical_deserts

MaxProfiles == 3
DefaultThreshold == 60

RiskScores == {40, 45, 55, 80}
GapLists == {<<"No MRI">>, <<"Staff shortage: nurses", "No MRI">>}
ScoredProfiles ==
    [facility_name : {"Korle Bu"}, region : {"Ashanti", "Northern"},
     desert_risk_score : RiskScores, capability_score : {64}, gaps : GapLists]

InitDeserts ==
    /\ tracker = NewTracker
    /\ returned = <<>>
    /\ ended = {}
    /\ thr = Idle
    /\ runs = NoRuns
    /\ ext \in {[pc |-> "profiles", profiles |-> profiles, threshold |-> threshold] :
                   profiles \in SeqsUpTo(ScoredProfiles, MaxProfiles),
                   threshold \in {DefaultThreshold, 50}}

IdentifyMedicalDeserts ==
    /\ ext.pc = "profiles"
    /\ ext' = [pc |-> "deserts", profiles |-> ext.profiles,
               threshold |-> ext.threshold,
               deserts |-> identify_medical_deserts(ext.profiles, ext.threshold)]
    /\ UNCHANGED <<tracker, returned, ended, thr, runs>>

NextDeserts == IdentifyMedicalDeserts

SpecDeserts == InitDeserts /\ [][NextDeserts]_vars

\* --------------------------- extraction run twice over the same record
\* One process runs the extraction agent, or the document parser, twice on
\* a record.  The vocabularies' iteration order is the process's and is the
\* same in both runs; what the provider answers is its own each time.

TwiceInputs ==
    {[pc |-> "fresh", by |-> "agent", record |-> rec, orders |-> [procedure |-> o, equipment |-> eo, specialty |-> so],
      first |-> PyNone, second |-> PyNone] :
        rec \in Rows, o \in KeywordOrders, eo \in EquipmentOrders,
        so \in SpecialtyOrders}
    \cup {[pc |-> "fresh", by |-> "parser", record |-> row, orders |-> PyNone,
            first |-> PyNone, second |-> PyNone] : row \in ParserRows}

InitTwice ==
    /\ tracker = NewTracker
    /\ returned = <<>>
    /\ ended = {}
    /\ thr = Idle
    /\ runs = NoRuns
    /\ ext \in TwiceInputs

\* The run's result is kept as the first or as the second
RunAgain(e, res) ==
    IF e.pc = "fresh" THEN [e EXCEPT !.pc = "once", !.first = res]
    ELSE [e EXCEPT !.pc = "twice", !.second = res]

AgentRun ==
    /\ ext.pc \in {"fresh", "once"}
    /\ ext.by = "agent"
    /\ \E resp \in RunResponses :
          ext' = RunAgain(ext, extract_from_facility(ext.record, resp, ext.orders))
    /\ UNCHANGED <<tracker, returned, ended, thr, runs>>

ParserRun ==
    /\ ext.pc \in {"fresh", "once"}
    /\ ext.by = "parser"
    /\ ext' = RunAgain(ext, extract_capabilities(ext.record))
    /\ UNCHANGED <<tracker, returned, ended, thr, runs>>

NextTwice == AgentRun \/ ParserRun

SpecTwice == InitTwice /\ [][NextTwice]_vars

\* ----------------------------------------------------------- claims

StepNumbers(tr) == [i \in DOMAIN tr.steps |-> tr.steps[i].step_number]

\* C1: the step numbers of the recorded steps, in list order, are exactly
\* 1, 2, ..., n, and every start_step returns a number strictly greater than
\* every number it returned before.
C1_StepNumbersDense ==
    /\ \A i \in DOMAIN tracker.steps : tracker.steps[i].step_number = i
    /\ \A i, j \in DOMAIN returned : i < j => returned[i] < returned[j]
    /\ Len(returned) = Len(tracker.steps)

C1_Witness ==
    /\ Len(tracker.steps) = 3
    /\ ended # {}
    /\ Len(get_all_citations(tracker)) > 0

\* C2 (as claimed): once end_step has written a step, no later end_step call
\* changes that step's output or duration.
C2_CompletedExactlyOnce ==
    [][\A i \in DOMAIN tracker.steps :
         tracker.steps[i].step_number \in ended =>
           /\ tracker'.steps[i].output_data = tracker.steps[i].output_data
           /\ tracker'.steps[i].duration_ms = tracker.steps[i].duration_ms]_vars

IsPrefix(s, t) == Len(s) <= Len(t) /\ \A i \in DOMAIN s : s[i] = t[i]

Frozen(st) == <<st.step_number, st.step_name, st.step_description, st.input_data>>

\* C3: under every tracker operation the list of steps only grows at its
\* end, each step's citation list only grows at its end, and the number,
\* name, description and input of an existing step never change.
C3_AppendOnly ==
    [][/\ Len(tracker.steps) <= Len(tracker'.steps)
       /\ \A i \in DOMAIN tracker.steps :
            /\ Frozen(tracker'.steps[i]) = Frozen(tracker.steps[i])
            /\ IsPrefix(tracker.steps[i].citations, tracker'.steps[i].citations)]_vars

C3_Witness ==
    /\ Len(tracker.steps) >= 2
    /\ Len(tracker.steps[1].citations) = 2
    /\ tracker.steps[1].citations[1] # tracker.steps[1].citations[2]
    /\ 1 \in ended

\* C4 (as claimed): whatever the interleaving of concurrent start_step calls,
\* every call returns a distinct step number and the ledger never holds two
\* steps with the same step_number.
C4_DistinctUnderThreads ==
    /\ \A i, j \in DOMAIN returned : i # j => returned[i] # returned[j]
    /\ \A i, j \in DOMAIN tracker.steps :
         i # j => tracker.steps[i].step_number # tracker.steps[j].step_number

LedgerOf(r) == runs[r].state.citation_tracker

\* C5: for any interleaving of process_query runs on one orchestrator, each
\* run's ledger holds only that run's steps, one per state the run has
\* entered, numbered from 1, the first with the run's own query as input,
\* and every citation in it names the run's own facility.
C5_QueriesIndependent ==
    \A r \in 1..NRuns :
       runs[r].pc # "idle" =>
          LET steps == LedgerOf(r).steps IN
          /\ Len(steps) = Len(runs[r].visited)
          /\ \A i \in DOMAIN steps :
               /\ steps[i].step_number = i
               /\ steps[i].step_name = NodeStep(runs[r].visited[i], runs[r].state).name
               /\ i = 1 => steps[i].input_data.query = QueryOf(r)
               /\ \A j \in DOMAIN steps[i].citations :
                    steps[i].citations[j].facility_id = FacilityIdOf(r)

C5_Witness ==
    /\ runs[1].pc = "analyze_data"
    /\ runs[2].pc = "extract_capabilities"
    /\ runs[2].phase = "end"
    /\ Len(get_all_citations(LedgerOf(1))) > 0
    /\ Len(get_all_citations(LedgerOf(2))) > 0

StateOrder ==
    <<"understand_query", "extract_capabilities", "analyze_data", "generate_response">>
LedgerNames ==
    <<"query_understanding", "capability_extraction", "data_analysis",
      "response_generation">>

OpenSteps(tr) == {i \in DOMAIN tr.steps : tr.steps[i].output_data = EmptyDict}

\* C7: during a run at most one ledger step is open, and it is the last one
\* started (so step k+1 is started only after step k was ended); when the
\* run has succeeded all four steps have been ended.
C7_OneOpenStep ==
    runs[1].pc # "idle" =>
       /\ OpenSteps(LedgerOf(1)) \subseteq {Len(LedgerOf(1).steps)}
       /\ runs[1].pc = "done" =>
            /\ OpenSteps(LedgerOf(1)) = {}
            /\ Len(LedgerOf(1).steps) = 4

C7_Witness ==
    /\ runs[1].pc = "analyze_data"
    /\ runs[1].phase = "body"
    /\ OpenSteps(LedgerOf(1)) = {3}
    /\ Len(LedgerOf(1).steps[2].citations) > 0

\* The result of a run that ended in an exception.
C8_ErrorState ==
    runs[1].pc = "error" =>
       /\ DOMAIN runs[1].result = {"error", "query", "processing_time_ms"}
       /\ runs[1].result.error \in {"AttributeError", "KeyError", "AnalysisError"}
       /\ runs[1].result.query = runs[1].state.query
       /\ runs[1].result.processing_time_ms = runs[1].clock
       /\ Len(LedgerOf(1).steps) = Len(runs[1].visited)

\* C8: when a state raises, process_query returns a result that carries the
\* exception's message, the query and the elapsed time and nothing else (no
\* response, matching_facilities, analysis_results, citations or
\* citation_report); no later state runs and nothing is retried: the run
\* stays as it is.
C8_ErrorAbortsRun ==
    /\ []C8_ErrorState
    /\ [][runs[1].pc = "error" => runs'[1] = runs[1]]_vars

C8_Witness ==
    /\ runs[1].pc = "error"
    /\ runs[1].visited = SubSeq(StateOrder, 1, 3)
    /\ runs[1].result.error = "AnalysisError"
    /\ Len(get_all_citations(LedgerOf(1))) > 0

\* C9 (as claimed): a failure for one facility record in ExtractCapabilities
\* does not abort the query: no run ends in an exception raised there.
C9_FacilityErrorsIsolated ==
    runs[1].pc = "error" =>
       runs[1].visited[Len(runs[1].visited)] # "extract_capabilities"

\* What the claim calls a failed or malformed provider outcome: the call
\* raises, the text is not JSON, the JSON is no list, or an item is no
\* object or has a name that is absent, null or not a string.
ProviderFailed(resp) ==
    \/ resp.k # "list"
    \/ \E i \in DOMAIN resp.items :
         \/ resp.items[i].e # "obj"
         \/ resp.items[i].name.t # "str"

\* C10 (as claimed): for every provider outcome _extract_procedures returns
\* normally, and when the provider fails or its output is malformed the
\* result is the deduplicated rule-based matches alone.
C10_ProviderNeverRaises ==
    ext.pc \in {"returned", "raised"} =>
       /\ ext.pc = "returned"
       /\ ProviderFailed(ext.resp) =>
             ext.result = _deduplicate_capabilities(
                              RuleProcedures(ext.text, ext.order)).value

\* C11 (as claimed): in a profile the document parser produced no two
\* capabilities have the same facility_id and the same lower-cased name.
C11_NoDuplicateNames ==
    ext.pc = "profile" =>
       \A i, j \in DOMAIN ext.profile.capabilities :
          i # j =>
            \/ ext.profile.capabilities[i].facility_id
                 # ext.profile.capabilities[j].facility_id
            \/ Lower(ext.profile.capabilities[i].name)
                 # Lower(ext.profile.capabilities[j].name)

\* C12: whatever the numbers of specialties, equipment, procedures and gaps
\* and whatever the facility type, each of the three score functions gives
\* a capability score between 0 and 100 and a desert risk score between 0
\* and 100 (the parsers' capability scores are in tenths).
C12_ScoresBounded ==
    /\ ext.pc \in {"parser", "demo"} =>
          /\ 0 <= ext.capability_score /\ ext.capability_score <= 1000
          /\ 0 <= ext.desert_risk_score /\ ext.desert_risk_score <= 100
    /\ ext.pc = "agent" =>
          /\ 0 <= ext.capability_score /\ ext.capability_score <= 100

\* The parser's cap is what bounds the score: the weighted sum is over 100
C12_Witness ==
    /\ ext.pc = "parser"
    /\ (ext.in.specialties * 5 + ext.in.equipment * 3 + ext.in.procedures * 2)
          * TypeWeight(ext.in.facility_type) > 1000
    /\ ext.capability_score = 1000

\* C13 (as claimed): the capability score a facility gets, from the document
\* parser and from the extraction agent of the orchestrator alike, is
\* min(100, (5 specialties + 3 equipment + 2 procedures) * type_weight), the
\* weight being 1.0, 0.7, 0.5, 0.4 for Teaching, Regional, Mission and
\* District hospitals and 0.3 otherwise.  Compared in tenths.
ClaimedWeight(facility_type) ==
    CASE facility_type = "Teaching Hospital" -> 10
      [] facility_type = "Regional Hospital" -> 7
      [] facility_type = "Mission Hospital" -> 5
      [] facility_type = "District Hospital" -> 4
      [] OTHER -> 3

ClaimedScore(in) ==
    Min(1000, (5 * in.specialties + 3 * in.equipment + 2 * in.procedures)
                * ClaimedWeight(in.facility_type))

C13_CapabilityFormula ==
    /\ ext.pc = "parser" => ext.capability_score = ClaimedScore(ext.in)
    /\ ext.pc = "agent" => ext.capability_score * 10 = ClaimedScore(ext.in)

\* C14 (as claimed): for the District Hospital with specialties "Cardiology,
\* General Surgery", equipment "CT Scanner, ICU", no procedures and the
\* staff notes "We are short on neurosurgeons and our MRI broke down last
\* month", extract_capabilities gives gaps with a staff-shortage entry and
\* an MRI-breakage entry, and a desert risk score of 60.
ShortOnRow(row) ==
    /\ row.facility_type = "District Hospital"
    /\ row.specialties = Str(<<Cardiology, Comma, Tok("general surgery", "t")>>)
    /\ row.equipment = Str(<<Tok("ct scanner", "m"), Comma, Tok("icu", "u")>>)
    /\ row.procedures = Str(<<>>)
    /\ row.staff_notes = Str(ShortOnNotes)

C14_ShortOnScenario ==
    (ext.pc \in {"profile", "raised"} /\ ShortOnRow(ext.row)) =>
       /\ ext.pc = "profile"
       /\ \E i \in DOMAIN ext.profile.gaps :
              ext.profile.gaps[i].kind = "Staff shortage"
       /\ \E i \in DOMAIN ext.profile.gaps :
              /\ ext.profile.gaps[i].kind = "broken/awaiting repair"
              /\ Lower(ext.profile.gaps[i].items) = Str(<<Tok("mri", "l")>>)
       /\ ext.profile.desert_risk_score = 60

\* C15: identify_medical_deserts reports a region exactly when the average
\* desert risk score of the region's facilities is at least the threshold
\* (scores 80, 55, 40 are not reported at 60; 80, 55, 45 are); a reported
\* region has at least one facility and its critical gaps are the union,
\* without repeats, of its facilities' gaps.
RegionScores(profiles, region) ==
    [i \in DOMAIN profiles |->
       IF profiles[i].region = region THEN profiles[i].desert_risk_score ELSE 0]

RegionCount(profiles, region) ==
    Cardinality({i \in DOMAIN profiles : profiles[i].region = region})

Reported(region) == \E k \in DOMAIN ext.deserts : ext.deserts[k].region = region

C15_DesertIffAverage ==
    ext.pc = "deserts" =>
       /\ \A i \in DOMAIN ext.profiles :
             Reported(ext.profiles[i].region)
               <=> SumSeq(RegionScores(ext.profiles, ext.profiles[i].region))
                     >= ext.threshold * RegionCount(ext.profiles, ext.profiles[i].region)
       /\ \A k \in DOMAIN ext.deserts :
             /\ ext.deserts[k].facility_count >= 1
             /\ \E i \in DOMAIN ext.profiles :
                   ext.profiles[i].region = ext.deserts[k].region
             /\ ext.deserts[k].critical_gaps =
                   {g \in {"No MRI", "Staff shortage: nurses"} :
                      \E i \in DOMAIN ext.profiles :
                         /\ ext.profiles[i].region = ext.deserts[k].region
                         /\ \E n \in DOMAIN ext.profiles[i].gaps :
                               ext.profiles[i].gaps[n] = g}
       /\ \A k, n \in DOMAIN ext.deserts :
             k # n => ext.deserts[k].region # ext.deserts[n].region

\* Three facilities of one region whose scores 80, 55, 45 average exactly
\* 60, two of them with the same gap: reported
C15_Witness ==
    /\ ext.pc = "deserts"
    /\ ext.threshold = DefaultThreshold
    /\ Len(ext.profiles) = 3
    /\ \A i \in 1..3 : ext.profiles[i].region = "Ashanti"
    /\ ext.profiles[1].desert_risk_score = 80
    /\ ext.profiles[2].desert_risk_score = 55
    /\ ext.profiles[3].desert_risk_score = 45
    /\ ext.profiles[1].gaps = <<"No MRI">>
    /\ ext.profiles[2].gaps = <<"Staff shortage: nurses", "No MRI">>
    /\ Len(ext.deserts) = 1
    /\ ext.deserts[1].critical_gaps = {"No MRI", "Staff shortage: nurses"}

\* The run has its query understood: the first node's body has returned
\* (visited holds the nodes entered so far)
Understood(run) ==
    /\ run.pc # "idle"
    /\ \/ run.pc = "understand_query" /\ run.phase = "end"
       \/ Len(run.visited) >= 2

\* C16: the query "Which hospitals can perform cardiac surgery in Greater
\* Accra?" is understood as intent find_facilities with the entities region
\* "Greater Accra" and capability "cardiac surgery", and no others.
C16_CardiacQueryUnderstood ==
    (Understood(runs[1]) /\ runs[1].state.query = CardiacQuery) =>
       /\ runs[1].state.intent = "find_facilities"
       /\ runs[1].state.entities =
             [region |-> Str(<<Tok("greater accra", "t")>>),
              capability |-> Str(<<Tok("cardiac surgery", "l")>>)]

C16_Witness ==
    /\ runs[1].pc = "done"
    /\ runs[1].state.query = CardiacQuery
    /\ runs[1].result.intent = "find_facilities"
    /\ runs[1].state.entities.region = Str(<<Tok("greater accra", "t")>>)

\* C17: for a query that is a string UnderstandQuery raises nothing and
\* sets intent to one of the five intents; a query with none of the intent
\* keywords gets general_query.
IntentNames ==
    {"find_facilities", "identify_gaps", "find_medical_deserts",
     "analyze_coverage", "general_query"}

IntentKeywords == {"which", "what", "find", "show", "list", "analyze", "coverage"}

C17_IntentIsOneOfFive ==
    (runs[1].pc # "idle" /\ runs[1].state.query.t = "str") =>
       /\ ~(runs[1].pc = "error" /\ Len(runs[1].visited) = 1)
       /\ Understood(runs[1]) =>
             /\ runs[1].state.intent \in IntentNames
             /\ (\A word \in IntentKeywords : ~In(word, Lower(runs[1].state.query)))
                   => runs[1].state.intent = "general_query"

C17_Witness ==
    /\ runs[1].pc = "done"
    /\ runs[1].state.query = Str(<<Tok("hello", "l")>>)
    /\ runs[1].result.intent = "general_query"

\* The run's response node has returned
Responded(run) ==
    \/ run.pc = "generate_response" /\ run.phase = "end"
    \/ run.pc \in {END, "done"}

FixedMessage == "I couldn't find relevant information for your query."

\* C18: when GenerateResponse returns, response is set (not None); it is
\* the fixed message when the intent is find_facilities and no facility
\* matched, or the intent is another one and there are no analysis results;
\* otherwise it is the template of the intent: the facility match list, the
\* medical-desert summary, the capability-gap summary, or the coverage
\* summary.
C18_ResponseByIntent ==
    Responded(runs[1]) =>
       /\ runs[1].state.response # PyNone
       /\ runs[1].state.response.template =
            (IF runs[1].state.intent = "find_facilities"
             THEN IF runs[1].state.matching_facilities = <<>>
                  THEN FixedMessage ELSE "facility_match"
             ELSE IF runs[1].state.analysis_results = PyNone THEN FixedMessage
             ELSE IF runs[1].state.intent = "find_medical_deserts" THEN "desert"
             ELSE IF runs[1].state.intent = "identify_gaps" THEN "gap"
             ELSE "coverage")

\* A facility search that matched nothing ends with the fixed message
C18_Witness ==
    /\ runs[1].pc = "done"
    /\ runs[1].state.intent = "find_facilities"
    /\ runs[1].state.raw_facilities_data # <<>>
    /\ runs[1].state.matching_facilities = <<>>
    /\ runs[1].state.response.template = FixedMessage

\* The ledger step of ExtractCapabilities, once the state has finished
ExtractionStep(r) == LedgerOf(r).steps[2]

Extracted(r) ==
    /\ runs[r].pc # "idle"
    /\ Len(LedgerOf(r).steps) >= 2
    /\ ExtractionStep(r).output_data # EmptyDict

\* C19: when ExtractCapabilities has finished, its ledger step holds as
\* many citations as its output's total_procedures, one for every procedure
\* claim of every record; each citation has the facility_id of its record
\* and the record's position in the input, counted from 1, as row_number.
C19_OneCitationPerProcedure ==
    Extracted(1) =>
       /\ Len(ExtractionStep(1).citations)
            = ExtractionStep(1).output_data.total_procedures
       /\ \A n \in DOMAIN runs[1].state.raw_facilities_data :
             Cardinality({k \in DOMAIN ExtractionStep(1).citations :
                            ExtractionStep(1).citations[k].row_number = n})
               = Len(runs[1].state.extracted_facilities[n].procedures)
       /\ \A k \in DOMAIN ExtractionStep(1).citations :
             /\ ExtractionStep(1).citations[k].row_number
                   \in DOMAIN runs[1].state.raw_facilities_data
             /\ ExtractionStep(1).citations[k].facility_id
                   = runs[1].state.raw_facilities_data[
                        ExtractionStep(1).citations[k].row_number].facility_id

\* Two records, the second with a procedure claim
C19_Witness ==
    /\ Extracted(1)
    /\ Len(runs[1].state.raw_facilities_data) = 2
    /\ \E k \in DOMAIN ExtractionStep(1).citations :
          ExtractionStep(1).citations[k].row_number = 2
    /\ ExtractionStep(1).output_data.total_procedures >= 2

\* A cell that holds no text: the column is absent, the string is empty, or
\* the CSV loader put NaN there
EmptyCell(value) == value \in {PyMissing, Str(<<>>), PyNaN}

\* C20 (as claimed): a record whose text fields are all empty or missing
\* gives a profile without any capability claim, and extraction does not
\* raise.
C20_EmptyFieldsNoClaims ==
    (/\ ext.pc \in {"profile", "raised"}
     /\ EmptyCell(ext.row.specialties) /\ EmptyCell(ext.row.equipment)
     /\ EmptyCell(ext.row.procedures) /\ EmptyCell(ext.row.staff_notes)) =>
       /\ ext.pc = "profile"
       /\ ext.profile.capabilities = <<>>
       /\ ext.profile.specialties = <<>>
       /\ ext.profile.equipment = <<>>
       /\ ext.profile.procedures = <<>>

\* C21 (as claimed): extraction and scoring run twice on the same unchanged
\* record give the same result both times.
C21_SameResultTwice ==
    ext.pc = "twice" => ext.second = ext.first

\* A facility as extracted that claims cardiac surgery and has neither a CT
\* scanner nor an ICU among its equipment and no cardiology among its
\* specialties
UnsupportedCardiac(f) ==
    /\ \E i \in DOMAIN f.procedures :
          Lower(f.procedures[i].name) = Str(<<Tok("cardiac surgery", "l")>>)
    /\ \A i \in DOMAIN f.equipment :
          /\ ~In("ct scanner", Lower(f.equipment[i].name))
          /\ ~In("icu", Lower(f.equipment[i].name))
    /\ \A i \in DOMAIN f.specialties :
          Lower(f.specialties[i].name) # Str(<<Tok("cardiology", "l")>>)

\* C22: such a facility has at least two anomalies, one for the missing
\* supporting equipment and one for the missing supporting specialty.
C22_CardiacAnomalies ==
    runs[1].pc # "idle" =>
       \A n \in DOMAIN runs[1].state.extracted_facilities :
          UnsupportedCardiac(runs[1].state.extracted_facilities[n]) =>
             /\ Len(runs[1].state.extracted_facilities[n].anomalies) >= 2
             /\ \E a \in DOMAIN runs[1].state.extracted_facilities[n].anomalies :
                   /\ runs[1].state.extracted_facilities[n].anomalies[a].kind
                         = "Claims cardiac surgery but missing"
                   /\ runs[1].state.extracted_facilities[n].anomalies[a].items
                         = <<"ct scanner", "icu">>
             /\ \E a \in DOMAIN runs[1].state.extracted_facilities[n].anomalies :
                   runs[1].state.extracted_facilities[n].anomalies[a].kind
                     = "Claims cardiac surgery but no cardiology specialty listed"

C22_Witness ==
    /\ runs[1].pc = "done"
    /\ \E n \in DOMAIN runs[1].state.extracted_facilities :
          /\ UnsupportedCardiac(runs[1].state.extracted_facilities[n])
          /\ Len(runs[1].state.extracted_facilities[n].anomalies) = 2

\* C23: process_query never changes a facility record it was given: from
\* the call on, through every node and through success or failure, the raw
\* records keep their fields and values; what ExtractCapabilities merges is
\* written onto the extracted facilities.
C23_RecordsNeverMutated ==
    [][runs[1].pc # "idle" =>
          /\ runs'[1].pc # "idle"
          /\ runs'[1].state.raw_facilities_data = runs[1].state.raw_facilities_data]_vars

\* A run that extracted from a record and merged its region: the record
\* still has no procedures key, the extracted facility has
C23_Witness ==
    /\ runs[1].pc = "done"
    /\ Len(runs[1].state.raw_facilities_data) = 1
    /\ Len(runs[1].state.extracted_facilities) = 1
    /\ "procedures" \notin DOMAIN runs[1].state.raw_facilities_data[1]
    /\ runs[1].state.extracted_facilities[1].procedures # <<>>
    /\ runs[1].state.extracted_facilities[1].region
          = runs[1].state.raw_facilities_data[1].region

\* The run's analysis node has returned
Analyzed(run) ==
    /\ run.pc # "idle"
    /\ \/ run.pc = "analyze_data" /\ run.phase = "end"
       \/ Len(run.visited) >= 4
       \/ run.pc \in {END, "done"}

AnalysisStep(r) == LedgerOf(r).steps[3]

\* C24: AnalyzeData fills one result slot.  For find_facilities it sets
\* matching_facilities to what the capability and region filter returns,
\* leaves analysis_results None and cites every match, in order, on its
\* step; for any other intent it sets analysis_results to the aggregator's
\* result, leaves matching_facilities empty and cites nothing.
C24_OneResultSlot ==
    Analyzed(runs[1]) =>
       IF runs[1].state.intent = "find_facilities"
       THEN /\ runs[1].state.analysis_results = PyNone
            /\ runs[1].state.matching_facilities =
                  find_facilities_by_capability(
                      runs[1].state.extracted_facilities,
                      Get(runs[1].state.entities.capability, Str(<<>>)),
                      Get(runs[1].state.entities.region, PyNone))
            /\ Len(AnalysisStep(1).citations) = Len(runs[1].state.matching_facilities)
            /\ \A k \in DOMAIN AnalysisStep(1).citations :
                  AnalysisStep(1).citations[k].facility_id
                    = runs[1].state.matching_facilities[k].facility.facility_id
       ELSE /\ runs[1].state.analysis_results =
                  analyze_regional_coverage(runs[1].state.extracted_facilities)
            /\ runs[1].state.matching_facilities = <<>>
            /\ AnalysisStep(1).citations = <<>>

C24_Witness ==
    /\ runs[1].pc = "done"
    /\ runs[1].state.intent = "find_facilities"
    /\ Len(runs[1].state.matching_facilities) >= 1
    /\ Len(AnalysisStep(1).citations) = Len(runs[1].state.matching_facilities)

\* C25 (as claimed): a term found in the notes becomes a capability only
\* when the structured field of its kind does not list it already: no
\* capability taken from the notes (confidence below 0.95) has the kind and
\* the lower-cased name of one taken from a structured field (0.95).
C25_NotesAddOnlyNew ==
    ext.pc = "profile" =>
       \A i, j \in DOMAIN ext.profile.capabilities :
          (/\ ext.profile.capabilities[i].confidence = 95
           /\ ext.profile.capabilities[j].confidence < 95
           /\ ext.profile.capabilities[i].capability_type
                 = ext.profile.capabilities[j].capability_type)
            => Lower(ext.profile.capabilities[i].name)
                 # Lower(ext.profile.capabilities[j].name)

\* What _extract_procedures hands to _deduplicate_capabilities
DedupInput == RuleProcedures(ext.text, ext.order) \o _llm_extract_procedures(ext.text, ext.resp)

\* The earliest of the entries of highest confidence that have the name
BestIndex(caps, key) ==
    CHOOSE i \in DOMAIN caps :
       /\ Lower(caps[i].name) = key
       /\ \A j \in DOMAIN caps :
             Lower(caps[j].name) = key =>
                \/ caps[j].confidence < caps[i].confidence
                \/ caps[j].confidence = caps[i].confidence /\ i <= j

\* result holds one entry for every distinct lower-cased name of input,
\* the earliest input entry of the highest confidence for the name
KeepsBest(input, result) ==
    /\ \A i, j \in DOMAIN result :
          i # j => Lower(result[i].name) # Lower(result[j].name)
    /\ {Lower(result[i].name) : i \in DOMAIN result}
         = {Lower(input[i].name) : i \in DOMAIN input}
    /\ \A i \in DOMAIN result :
          result[i] = input[BestIndex(input, Lower(result[i].name))]
    /\ \A i \in DOMAIN result :
          (\E k \in DOMAIN input :
              /\ input[k].confidence = 90
              /\ Lower(input[k].name) = Lower(result[i].name))
            => result[i].confidence = 90

\* C26: _deduplicate_capabilities returns one entry for every distinct
\* lower-cased name of its input, namely the earliest input entry of the
\* highest confidence for the name; a rule-based match (0.9) is never
\* replaced by a provider suggestion (0.8) of the same name.
C26_DedupKeepsBest ==
    ext.pc = "returned" => KeepsBest(DedupInput, ext.result)

\* The provider suggests a procedure the rules found, after another one
C26_Witness ==
    /\ ext.pc = "returned"
    /\ Len(DedupInput) = 4
    /\ Len(ext.result) = 3
    /\ DedupInput[3].name = Str(<<Tok("dialysis", "l")>>)
    /\ \E i \in DOMAIN DedupInput :
          /\ DedupInput[i].confidence = 90
          /\ Lower(DedupInput[i].name) = Lower(DedupInput[4].name)
    /\ \A i \in DOMAIN ext.result : ext.result[i].name # DedupInput[4].name

\* entity is what the scan of the vocabulary leaves for the query: absent
\* when no term occurs in it, else the term that comes first in terms
FirstInVocabulary(entity, terms, query, titled) ==
    IF \A k \in DOMAIN terms : ~In(terms[k], query) THEN entity = PyMissing
    ELSE \E k \in DOMAIN terms :
            /\ In(terms[k], query)
            /\ \A j \in 1..(k - 1) : ~In(terms[j], query)
            /\ entity = Str(<<Tok(terms[k], IF titled THEN "t" ELSE "l")>>)

\* C27: the entities of an understood query have the keys region and
\* capability only, each with one value: the term of its vocabulary that
\* comes first in the vocabulary's order among those the query contains,
\* wherever it stands in the query.
C27_FirstVocabularyTerm ==
    (Understood(runs[1]) /\ runs[1].state.query.t = "str") =>
       /\ DOMAIN runs[1].state.entities = {"region", "capability"}
       /\ FirstInVocabulary(runs[1].state.entities.region, regions,
                            Lower(runs[1].state.query), TRUE)
       /\ FirstInVocabulary(runs[1].state.entities.capability, query_procedures,
                            Lower(runs[1].state.query), FALSE)

C27_Witness ==
    /\ runs[1].pc = "done"
    /\ runs[1].state.query = SeveralTermsQuery
    /\ runs[1].state.entities.region = Str(<<Tok("greater accra", "t")>>)
    /\ runs[1].state.entities.capability = Str(<<Tok("dialysis", "l")>>)

\* The tracker t2 is tr with the citation appended to step i and nothing
\* else changed
AppendedTo(tr, t2, i, citation) ==
    /\ t2.current_step_number = tr.current_step_number
    /\ Len(t2.steps) = Len(tr.steps)
    /\ t2.steps[i].citations = Append(tr.steps[i].citations, citation)
    /\ t2.steps[i].output_data = tr.steps[i].output_data
    /\ t2.steps[i].duration_ms = tr.steps[i].duration_ms
    /\ Frozen(t2.steps[i]) = Frozen(tr.steps[i])
    /\ \A j \in DOMAIN tr.steps : j # i => t2.steps[j] = tr.steps[j]

InferenceCitation == Citation("inference", None, None, None, None, 0, 100)

\* For every step of the ledger, open or ended, add_citation_to_step with
\* its number appends the citation to it and changes nothing else
C28_AnyStepTakesCitation ==
    \A i \in DOMAIN tracker.steps :
       AppendedTo(tracker,
                  add_citation_to_step(tracker, tracker.steps[i].step_number,
                                       InferenceCitation),
                  i, InferenceCitation)

\* A call that stores a citation appends it to one step and changes nothing
\* else
C28_CitationStep ==
    Len(get_all_citations(tracker')) > Len(get_all_citations(tracker)) =>
       \E i \in DOMAIN tracker.steps :
          /\ tracker'.steps[i].citations # <<>>
          /\ AppendedTo(tracker, tracker', i,
                        tracker'.steps[i].citations[Len(tracker'.steps[i].citations)])

\* C28: a citation can be attached to a step whether it is open or ended:
\* add_citation_to_step on an existing step number appends the citation as
\* the last of the step's citations, changes no other step and leaves the
\* step's output_data and duration_ms as they were.
C28_CitationsOnAnyStep == []C28_AnyStepTakesCitation /\ [][C28_CitationStep]_vars

\* An ended step with two citations next to an open one
C28_Witness ==
    /\ Len(tracker.steps) = 2
    /\ tracker.steps[1].output_data # EmptyDict
    /\ 1 \in ended
    /\ Len(tracker.steps[1].citations) = 2
    /\ tracker.steps[2].output_data = EmptyDict

\* The numbers of StepArgs that start_step has not returned on this tracker
NeverReturned == {n \in StepArgs : \A i \in DOMAIN returned : returned[i] # n}

\* C29: end_step and add_citation_to_step called with a step number that
\* start_step never returned on this tracker leave the whole ledger as it
\* was: no step created, no output written, no citation stored, the step
\* counter unchanged.
C29_UnknownStepIgnored ==
    \A n \in NeverReturned :
       /\ \A a \in EndArgs : end_step(tracker, n, a[1], a[2]) = tracker
       /\ add_citation_to_step(tracker, n, InferenceCitation) = tracker

\* One open step holding a citation, while the numbers 0, 2 and above were
\* never returned
C29_Witness ==
    /\ returned = <<1>>
    /\ 2 \in NeverReturned
    /\ ended = {}
    /\ Len(tracker.steps[1].citations) = 1

\* The number of citations held by the steps before step i
CitationsBefore(steps, i) ==
    SumSeq([j \in 1..(i - 1) |-> Len(steps[j].citations)])

\* all holds the citations of the steps, step after step, each step's in
\* the order they were attached
InStepOrder(steps, all) ==
    /\ Len(all) = CitationsBefore(steps, Len(steps) + 1)
    /\ \A i \in DOMAIN steps : \A k \in DOMAIN steps[i].citations :
          all[CitationsBefore(steps, i) + k] = steps[i].citations[k]

\* picked is the subsequence of all whose facility_id is facility_id
SubsequenceOf(all, picked, facility_id) ==
    LET at == {p \in DOMAIN all : all[p].facility_id = facility_id} IN
    /\ Len(picked) = Cardinality(at)
    /\ \A p \in at : picked[Cardinality({q \in at : q <= p})] = all[p]

FacilityIds == {"FAC001", "FAC999", None}

\* The export d agrees with the steps
ExportAgrees(steps, d) ==
    /\ d.total_steps = Len(steps)
    /\ Len(d.steps) = Len(steps)
    /\ \A i \in DOMAIN steps : d.steps[i] = steps[i]
    /\ \A i, j \in DOMAIN d.steps :
          i < j => d.steps[i].step_number < d.steps[j].step_number
    /\ d.total_citations =
          SumSeq([i \in DOMAIN d.steps |-> Len(d.steps[i].citations)])

\* C30: the ledger's queries and export agree with its contents:
\* get_all_citations returns every citation of every step, in step order
\* and within a step in attachment order; get_citations_by_facility(id)
\* returns exactly the subsequence of those whose facility_id is id; to_dict
\* reports total_steps equal to the number of steps, the steps in ascending
\* step_number order, and total_citations equal to the sum of the per-step
\* citation counts.
C30_QueriesAgreeWithLedger ==
    /\ InStepOrder(tracker.steps, get_all_citations(tracker))
    /\ \A id \in FacilityIds :
          SubsequenceOf(get_all_citations(tracker),
                        get_citations_by_facility(tracker, id), id)
    /\ ExportAgrees(tracker.steps, to_dict(tracker))

\* A facility citation on the first step and an inference citation on the
\* second
C30_Witness ==
    /\ Len(tracker.steps) >= 2
    /\ Len(tracker.steps[1].citations) = 1
    /\ tracker.steps[1].citations[1].facility_id = "FAC001"
    /\ tracker.steps[2].citations = <<InferenceCitation>>
    /\ Len(get_citations_by_facility(tracker, "FAC001")) = 1

====
